---- MODULE Spec2Model ----
(***************************************************************************)
(* svg2print: the Paper.js safety layer (src/lib/paperSafety.ts) and the   *)
(* SVG pipeline (src/lib/svgParser.ts).                                    *)
(*                                                                         *)
(* JavaScript values are records tagged by `kind`; JavaScript numbers are  *)
(* records tagged by `t` so that NaN, Infinity and non-numbers are values  *)
(* the validators can meet.  Path objects live in a heap (reference ->     *)
(* value) because closePath() and simplify() change a path in place.       *)
(***************************************************************************)
EXTENDS Integers, Sequences, FiniteSets, TLC

\* ------------------------------------------------------------------ bounds
MaxSegs == 3        \* longest segment array of a validator probe
MaxFaults == 2      \* kernel calls of one run that do not succeed
MaxOffset == 3      \* largest |offset| of a settings record
MaxRuns == 2        \* conversion runs of one session
MaxPaths == 4       \* paths of a ParsedSVG handed to preflightCheck
MaxChildren == 3    \* children of a compound handed to pathToShapes
MaxGeometries == 3  \* geometries handed to mergeGeometries
MaxShapes == 2      \* children of a compound handed to generateMesh
MaxUploads == 2     \* files selected in the App
MaxGenerates == 2   \* conversions started in the App

\* ------------------------------------------------------- JavaScript values
Null == [kind |-> "null"]
Num(v) == [kind |-> "Number", t |-> "num", v |-> v]
NaN == [kind |-> "Number", t |-> "NaN", v |-> 0]
Infinity == [kind |-> "Number", t |-> "inf", v |-> 1]
Undefined == [kind |-> "undefined", t |-> "undefined", v |-> 0]

\* typeof x === 'number'
IsNumber(x) == x.t # "undefined"
\* isNaN(x): a non-number coerces to NaN
IsNaN(x) == x.t \in {"NaN", "undefined"}
\* isFinite(x)
IsFinite(x) == x.t = "num"
\* x === 0
IsZero(x) == x.t = "num" /\ x.v = 0
\* Math.abs(x)
Abs(x) == IF x.t = "num" /\ x.v < 0 THEN Num(0 - x.v) ELSE x
\* x >= n for a finite n; every comparison with NaN is false
GreaterEq(x, n) == \/ x.t = "inf" /\ x.v > 0
                   \/ x.t = "num" /\ x.v >= n

Point(x, y) == [kind |-> "Point", x |-> x, y |-> y]
Segment(p, hIn, hOut) ==
    [kind |-> "Segment", point |-> p, handleIn |-> hIn, handleOut |-> hOut]
Corner(x, y) == Segment(Point(Num(x), Num(y)), Null, Null)
Array(items) == [kind |-> "Array", items |-> items]
Rectangle(w, h) == [kind |-> "Rectangle", width |-> w, height |-> h]
Path(segs, closed, bounds, length, area) ==
    [kind |-> "Path", segments |-> segs, closed |-> closed,
     bounds |-> bounds, length |-> length, area |-> area]
\* `id` tells one CompoundPath object from another; it is no part of the
\* geometry.
CompoundPath(children, id) ==
    [kind |-> "CompoundPath", children |-> children, id |-> id]
Group(children) == [kind |-> "Group", children |-> children]

\* ------------------------------------------------------------ PathValidator
\* One segment of the loop of isValidPath (lines 24-41).
SegmentOk(segment) ==
    /\ segment.kind # "null"
    /\ segment.point.kind # "null"
    /\ IsNumber(segment.point.x) /\ IsNumber(segment.point.y)
    /\ ~IsNaN(segment.point.x) /\ ~IsNaN(segment.point.y)
    /\ IsFinite(segment.point.x) /\ IsFinite(segment.point.y)
    /\ (segment.handleIn.kind # "null" =>
            ~(IsNaN(segment.handleIn.x) \/ IsNaN(segment.handleIn.y)))
    /\ (segment.handleOut.kind # "null" =>
            ~(IsNaN(segment.handleOut.x) \/ IsNaN(segment.handleOut.y)))

\* isValidPath without its last test (zero-length paths).
isValidPath_noLength(path) ==
    /\ path.kind # "null"
    /\ path.kind = "Path"
    /\ path.segments.kind = "Array"
    /\ Len(path.segments.items) >= 2
    /\ \A i \in 1..Len(path.segments.items) : SegmentOk(path.segments.items[i])
    /\ path.bounds.kind # "null"
    /\ ~(IsNaN(path.bounds.width) \/ IsNaN(path.bounds.height))
    /\ IsFinite(path.bounds.width) /\ IsFinite(path.bounds.height)
    /\ ~(IsZero(path.bounds.width) /\ IsZero(path.bounds.height))

isValidPath(path) ==
    /\ path.kind # "null"
    /\ path.kind = "Path"
    /\ path.segments.kind = "Array"
    /\ Len(path.segments.items) >= 2
    /\ \A i \in 1..Len(path.segments.items) : SegmentOk(path.segments.items[i])
    /\ path.bounds.kind # "null"
    /\ ~(IsNaN(path.bounds.width) \/ IsNaN(path.bounds.height))
    /\ IsFinite(path.bounds.width) /\ IsFinite(path.bounds.height)
    /\ ~(IsZero(path.bounds.width) /\ IsZero(path.bounds.height))
    /\ ~(~IsNumber(path.length) \/ IsZero(path.length) \/ IsNaN(path.length))

\* isValidCompoundPath without the loop over the children.
isValidCompoundPath_noLoop(compound) ==
    /\ compound.kind # "null"
    /\ compound.kind = "CompoundPath"
    /\ compound.children.kind = "Array"
    /\ Len(compound.children.items) # 0

\* isValidCompoundPath that looks at the first child only.
isValidCompoundPath_firstOnly(compound) ==
    /\ compound.kind # "null"
    /\ compound.kind = "CompoundPath"
    /\ compound.children.kind = "Array"
    /\ Len(compound.children.items) # 0
    /\ compound.children.items[1].kind = "Path"
           => isValidPath(compound.children.items[1])

isValidCompoundPath(compound) ==
    /\ compound.kind # "null"
    /\ compound.kind = "CompoundPath"
    /\ compound.children.kind = "Array"
    /\ Len(compound.children.items) # 0
    /\ \A i \in 1..Len(compound.children.items) :
          compound.children.items[i].kind = "Path"
              => isValidPath(compound.children.items[i])

\* ------------------------------------------------------------ kernel model
\* Lengths are counted in units of 0.0005 mm, so that 0.001 is 2.
OFFSET_EPSILON == 2

PathRef(id) == [kind |-> "PathRef", id |-> id]

\* The machine a call runs on: the heap of Path objects and the log of the
\* kernel calls made so far.
Machine(heap, calls) == [heap |-> heap, calls |-> calls]
Alloc(m, value) ==
    [m EXCEPT !.heap = Append(m.heap, value)]
NewRef(m) == Len(m.heap) + 1
LogCall(m, name) == [m EXCEPT !.calls = Append(m.calls, name)]

\* Result of running a piece of code: the machine after it, the value it
\* returned, and whether it threw instead.
Return(m, v) == [m |-> m, v |-> v, thrown |-> FALSE]
Throw(m) == [m |-> m, v |-> Null, thrown |-> TRUE]

\* An oracle fixes, for one run, which kernel calls do not succeed: it maps
\* the ordinal of a kernel call to "fault" (the call throws), "nan" (the
\* result has a NaN anchor) or "collapse" (the result has zero length).
BadOutcomes == {"fault", "nan", "collapse"}
Outcome(o, m) ==
    IF (Len(m.calls) + 1) \in DOMAIN o THEN o[Len(m.calls) + 1] ELSE "ok"

\* What the kernel leaves behind when it returns a broken path.
Broken(p, how) ==
    IF how = "nan"
    THEN [p EXCEPT !.segments =
                       Array(<<Segment(Point(NaN, Num(0)), Null, Null)>>
                             \o Tail(p.segments.items)),
                   !.bounds = Rectangle(NaN, NaN),
                   !.length = NaN, !.area = NaN]
    ELSE [p EXCEPT !.segments = Array(<<Head(p.segments.items)>>),
                   !.bounds = Rectangle(Num(0), Num(0)),
                   !.length = Num(0), !.area = Num(0)]

\* Geometry of the successful kernel operations.
Closed(p) == [p EXCEPT !.closed = TRUE]
Simplified(p, tolerance) ==
    IF Len(p.segments.items) > 2
    THEN [p EXCEPT !.segments =
              Array(SubSeq(p.segments.items, 1, Len(p.segments.items) - 1))]
    ELSE p
Offsetted(p, offset) ==
    [p EXCEPT !.area = IF p.area.t = "num" THEN Num(p.area.v + offset)
                       ELSE p.area]

\* path.closePath(): changes the path in place.
kClosePath(m, o, id) ==
    LET how == Outcome(o, m)
        m1 == LogCall(m, "closePath")
    IN  CASE how = "fault" -> Throw(m1)
          [] how = "ok" ->
                Return([m1 EXCEPT !.heap[id] = Closed(m.heap[id])], PathRef(id))
          [] OTHER ->
                Return([m1 EXCEPT !.heap[id] = Broken(m.heap[id], how)],
                       PathRef(id))

\* path.simplify(tolerance): changes the path in place.
kSimplify(m, o, id, tolerance) ==
    LET how == Outcome(o, m)
        m1 == LogCall(m, "simplify")
    IN  CASE how = "fault" -> Throw(m1)
          [] how = "ok" ->
                Return([m1 EXCEPT !.heap[id] =
                            Simplified(m.heap[id], tolerance)], PathRef(id))
          [] OTHER ->
                Return([m1 EXCEPT !.heap[id] = Broken(m.heap[id], how)],
                       PathRef(id))

\* path.offsetPath(offset): returns a new path.
kOffsetPath(m, o, id, offset) ==
    LET how == Outcome(o, m)
        m1 == LogCall(m, "offsetPath")
    IN  CASE how = "fault" -> Throw(m1)
          [] how = "ok" ->
                Return(Alloc(m1, Offsetted(m.heap[id], offset)),
                       PathRef(NewRef(m1)))
          [] OTHER ->
                Return(Alloc(m1, Broken(m.heap[id], how)), PathRef(NewRef(m1)))

\* path.clone(): returns a new path.
kClone(m, o, id) ==
    LET how == Outcome(o, m)
        m1 == LogCall(m, "clone")
    IN  CASE how = "fault" -> Throw(m1)
          [] how = "ok" -> Return(Alloc(m1, m.heap[id]), PathRef(NewRef(m1)))
          [] OTHER ->
                Return(Alloc(m1, Broken(m.heap[id], how)), PathRef(NewRef(m1)))

\* ----------------------------------------------------- SafeOperationWrapper
\* safePaperOp that validates Path results only.
safePaperOp_pathsOnly(r) ==
    IF r.thrown THEN Return(r.m, Null)
    ELSE IF r.v.kind = "PathRef"
         THEN IF ~isValidPath(r.m.heap[r.v.id]) THEN Return(r.m, Null)
              ELSE Return(r.m, r.v)
         ELSE Return(r.m, r.v)

\* safePaperOp applied to the run r of its operation.
safePaperOp(r) ==
    IF r.thrown THEN Return(r.m, Null)
    ELSE IF r.v.kind = "PathRef"
         THEN IF ~isValidPath(r.m.heap[r.v.id]) THEN Return(r.m, Null)
              ELSE Return(r.m, r.v)
         ELSE IF r.v.kind = "CompoundPath"
              THEN IF ~isValidCompoundPath(r.v) THEN Return(r.m, Null)
                   ELSE Return(r.m, r.v)
              ELSE Return(r.m, r.v)

\* The path a reference stands for; Null stands for itself.
Deref(m, v) == IF v.kind = "PathRef" THEN m.heap[v.id] ELSE v

\* result || path
OrElse(r, v) == IF r.v.kind = "null" THEN Return(r.m, v) ELSE r

safeSimplify(m, o, path, tolerance) ==
    IF ~isValidPath(Deref(m, path)) \/ tolerance <= 0
    THEN Return(m, path)
    ELSE OrElse(safePaperOp(kSimplify(m, o, path.id, tolerance)), path)

\* safeOffset without its near-zero shortcut.
safeOffset_noSkip(m, o, path, offset) ==
    IF ~isValidPath(Deref(m, path))
    THEN Return(m, Null)
    ELSE OrElse(safePaperOp(kOffsetPath(m, o, path.id, offset)), path)

safeOffset(m, o, path, offset) ==
    IF ~isValidPath(Deref(m, path))
    THEN Return(m, Null)
    ELSE IF (IF offset < 0 THEN 0 - offset ELSE offset) < OFFSET_EPSILON
         THEN Return(m, path)
         ELSE OrElse(safePaperOp(kOffsetPath(m, o, path.id, offset)), path)

safeClosePath(m, o, path) ==
    IF ~isValidPath(Deref(m, path))
    THEN Return(m, path)
    ELSE IF Deref(m, path).closed
         THEN Return(m, path)
         ELSE OrElse(safePaperOp(kClosePath(m, o, path.id)), path)

safeClone(m, o, path) ==
    IF ~isValidPath(Deref(m, path))
    THEN Return(m, Null)
    ELSE safePaperOp(kClone(m, o, path.id))

\* --------------------------------------------------- compound construction
\* Operators named After... continue the function named above them from the
\* point where the value of their last parameter has been computed.

\* validPaths.map(p => p.clone()): a fault of one clone ends the whole map.
RECURSIVE CloneAll(_, _, _, _)
AfterMapClone(o, ids, clones, r) ==
    IF r.thrown THEN r
    ELSE CloneAll(r.m, o, Tail(ids), Append(clones, Deref(r.m, r.v)))

CloneAll(m, o, ids, clones) ==
    IF ids = <<>> THEN Return(m, Array(clones))
    ELSE AfterMapClone(o, ids, clones, kClone(m, o, Head(ids)))

\* new paper.CompoundPath({children: validPaths.map(p => p.clone())})
AfterCloneAll(r) ==
    IF r.thrown THEN r
    ELSE Return(r.m, CompoundPath(r.v, Len(r.m.calls)))

kNewCompound(m, o, ids) == AfterCloneAll(CloneAll(m, o, ids, <<>>))

\* Children with the same geometry overlap completely: the union keeps one.
RECURSIVE Merged(_, _)
Merged(children, kept) ==
    IF children = <<>> THEN kept
    ELSE IF \E i \in 1..Len(kept) : kept[i] = Head(children)
         THEN Merged(Tail(children), kept)
         ELSE Merged(Tail(children), Append(kept, Head(children)))

\* compound.unite(compound): a new item; the operands are left alone.  A
\* union of one child is reduced to that child, a Path.
United(m1, how, children) ==
    IF how = "fault" THEN Throw(m1)
    ELSE IF Len(children) = 1
         THEN Return(Alloc(m1, IF how = "ok" THEN children[1]
                               ELSE Broken(children[1], how)),
                     PathRef(NewRef(m1)))
         ELSE Return(m1,
                     CompoundPath(
                         Array(IF how = "ok" THEN children
                               ELSE <<Broken(Head(children), how)>>
                                    \o Tail(children)),
                         Len(m1.calls)))

\* The paths a path item consists of: itself, or its children.
PathsOf(m, item) ==
    IF item.kind = "PathRef" THEN <<m.heap[item.id]>>
    ELSE item.children.items

kUnite(m, o, path1, path2) ==
    United(LogCall(m, "unite"), Outcome(o, m),
           Merged(PathsOf(m, path1) \o PathsOf(m, path2), <<>>))

\* safeUnite that validates operands that are Paths only.
safeUnite_pathsOnly(m, o, path1, path2) ==
    IF path1.kind = "PathRef" /\ ~isValidPath(Deref(m, path1))
    THEN Return(m, Null)
    ELSE IF path2.kind = "PathRef" /\ ~isValidPath(Deref(m, path2))
    THEN Return(m, Null)
    ELSE safePaperOp(kUnite(m, o, path1, path2))

safeUnite(m, o, path1, path2) ==
    IF path1.kind = "PathRef" /\ ~isValidPath(Deref(m, path1))
    THEN Return(m, Null)
    ELSE IF path2.kind = "PathRef" /\ ~isValidPath(Deref(m, path2))
    THEN Return(m, Null)
    ELSE IF path1.kind = "CompoundPath" /\ ~isValidCompoundPath(path1)
    THEN Return(m, Null)
    ELSE IF path2.kind = "CompoundPath" /\ ~isValidCompoundPath(path2)
    THEN Return(m, Null)
    ELSE safePaperOp(kUnite(m, o, path1, path2))

\* safeCreateAndUniteCompound that returns what the union gave.
AfterUnite_noFallback(compound, united) == united

\* safeCreateAndUniteCompound from line 242: united has been computed.
AfterUnite(compound, united) ==
    IF united.v.kind = "CompoundPath"
    THEN united
    ELSE Return(united.m, compound.v)

\* safeCreateAndUniteCompound from line 235: compound has been computed.
AfterCreate(o, compound) ==
    IF compound.v.kind = "null" THEN Return(compound.m, Null)
    ELSE AfterUnite(compound,
                    safeUnite(compound.m, o, compound.v, compound.v))

\* paths.filter(isValidPath)
ValidOnly(m, paths) ==
    LET Valid(id) == isValidPath(m.heap[id]) IN SelectSeq(paths, Valid)

safeCreateAndUniteCompound(m, o, paths) ==
    IF Len(ValidOnly(m, paths)) = 0 THEN Return(m, Null)
    ELSE AfterCreate(o, safePaperOp(kNewCompound(m, o, ValidOnly(m, paths))))

\* -------------------------------------------------------- GeometryPipeline
\* How a pipeline function ended: error is "none" when it returned, else the
\* kind of error that left it ("RawFault": a kernel fault nobody caught).
Ended(m, v, error, stage) ==
    [m |-> m, v |-> v, error |-> error, stage |-> stage]

\* The close / revalidate / simplify / revalidate loop of processPaths.
RECURSIVE CloseAndSimplify(_, _, _, _, _)

\* The loop body from line 275: the path has been simplified.
AfterSimplify(o, validPaths, settings, processedPaths, processed) ==
    IF ~isValidPath(Deref(processed.m, processed.v))
    THEN CloseAndSimplify(processed.m, o, Tail(validPaths), settings,
                          processedPaths)
    ELSE CloseAndSimplify(processed.m, o, Tail(validPaths), settings,
                          Append(processedPaths, processed.v.id))

\* The loop body from line 265: the path has been closed.
AfterClose(o, validPaths, settings, processedPaths, processed) ==
    IF ~isValidPath(Deref(processed.m, processed.v))
    THEN CloseAndSimplify(processed.m, o, Tail(validPaths), settings,
                          processedPaths)
    ELSE IF settings.simplifyTolerance > 0
         THEN AfterSimplify(o, validPaths, settings, processedPaths,
                            safeSimplify(processed.m, o, processed.v,
                                         settings.simplifyTolerance))
         ELSE CloseAndSimplify(processed.m, o, Tail(validPaths), settings,
                               Append(processedPaths, processed.v.id))

\* A loop that simplifies a path before it closes it.
CloseAndSimplify_simplifyFirst(m, o, validPaths, settings, processedPaths) ==
    IF validPaths = <<>> THEN Return(m, processedPaths)
    ELSE AfterClose(o, validPaths, settings, processedPaths,
                    safeClosePath(
                        safeSimplify(m, o, PathRef(Head(validPaths)),
                                     settings.simplifyTolerance).m,
                        o, PathRef(Head(validPaths))))

CloseAndSimplify(m, o, validPaths, settings, processedPaths) ==
    IF validPaths = <<>> THEN Return(m, processedPaths)
    ELSE AfterClose(o, validPaths, settings, processedPaths,
                    safeClosePath(m, o, PathRef(Head(validPaths))))

\* The offset loop of processPaths.
RECURSIVE OffsetAll(_, _, _, _, _)

\* The offset loop body that skips a path whose offset failed.
AfterOffset_drop(o, processedPaths, settings, offsetPaths, offsetPath) ==
    IF offsetPath.v.kind # "null"
       /\ isValidPath(Deref(offsetPath.m, offsetPath.v))
       /\ offsetPath.v.id # Head(processedPaths)
    THEN OffsetAll(offsetPath.m, o, Tail(processedPaths), settings,
                   Append(offsetPaths, offsetPath.v.id))
    ELSE OffsetAll(offsetPath.m, o, Tail(processedPaths), settings,
                   offsetPaths)

\* The loop body from line 300: the path has been offset.
AfterOffset(o, processedPaths, settings, offsetPaths, offsetPath) ==
    IF offsetPath.v.kind # "null"
       /\ isValidPath(Deref(offsetPath.m, offsetPath.v))
    THEN OffsetAll(offsetPath.m, o, Tail(processedPaths), settings,
                   Append(offsetPaths, offsetPath.v.id))
    ELSE OffsetAll(offsetPath.m, o, Tail(processedPaths), settings,
                   Append(offsetPaths, Head(processedPaths)))

OffsetAll(m, o, processedPaths, settings, offsetPaths) ==
    IF processedPaths = <<>> THEN Return(m, offsetPaths)
    ELSE AfterOffset(o, processedPaths, settings, offsetPaths,
                     safeOffset(m, o, PathRef(Head(processedPaths)),
                                settings.offset))

AbsInt(n) == IF n < 0 THEN 0 - n ELSE n

\* The offset stage: the list handed to the island filter.
OffsetStage(m, o, processedPaths, settings) ==
    IF AbsInt(settings.offset) > OFFSET_EPSILON
    THEN OffsetAll(m, o, processedPaths, settings, <<>>)
    ELSE Return(m, processedPaths)

\* An island filter that compares the signed area.
IslandFilter_signed(m, paths, settings) ==
    LET Keep(id) == /\ isValidPath(m.heap[id])
                    /\ GreaterEq(m.heap[id].area,
                                 settings.removeIslandsThreshold)
    IN  IF settings.removeIslandsThreshold > 0
        THEN SelectSeq(paths, Keep)
        ELSE paths

\* The island filter: the list handed to the union.
IslandFilter(m, paths, settings) ==
    LET Keep(id) == /\ isValidPath(m.heap[id])
                    /\ GreaterEq(Abs(m.heap[id].area),
                                 settings.removeIslandsThreshold)
    IN  IF settings.removeIslandsThreshold > 0
        THEN SelectSeq(paths, Keep)
        ELSE paths

\* The value of a local that was never assigned.
Unreached == [kind |-> "unreached"]

\* What processPaths leaves: its result, the lists its stages produced (empty
\* for a stage that was not reached) and what the union gave.
Processed(e, validPaths, processedPaths, offsetPaths, finalPaths, compound) ==
    [m |-> e.m, v |-> e.v, error |-> e.error, stage |-> e.stage,
     validPaths |-> validPaths, processedPaths |-> processedPaths,
     offsetPaths |-> offsetPaths, finalPaths |-> finalPaths,
     compound |-> compound]

\* processPaths from line 329: compound has been computed.
AfterCompound(validPaths, processedPaths, offsetPaths, finalPaths, compound) ==
    IF compound.v.kind = "null"
    THEN Processed(Ended(compound.m, Null, "ProcessingError", "unite"),
                   validPaths, processedPaths, offsetPaths, finalPaths,
                   compound.v)
    ELSE Processed(Ended(compound.m, compound.v, "none", "done"),
                   validPaths, processedPaths, offsetPaths, finalPaths,
                   compound.v)

\* processPaths from line 318 without the test for an empty list.
AfterFilter_noTest(m, o, validPaths, processedPaths, offsetPaths, finalPaths) ==
    AfterCompound(validPaths, processedPaths, offsetPaths, finalPaths,
                  safeCreateAndUniteCompound(m, o, finalPaths))

\* processPaths from line 318: the islands have been filtered out.
AfterFilter(m, o, validPaths, processedPaths, offsetPaths, finalPaths) ==
    IF Len(finalPaths) = 0
    THEN Processed(Ended(m, Null, "ProcessingError", "filter"),
                   validPaths, processedPaths, offsetPaths, finalPaths,
                   Unreached)
    ELSE AfterCompound(validPaths, processedPaths, offsetPaths, finalPaths,
                       safeCreateAndUniteCompound(m, o, finalPaths))

\* processPaths from line 311: the offset stage is over.
AfterOffsetStage(o, settings, validPaths, processedPaths, offsetted) ==
    AfterFilter(offsetted.m, o, validPaths, processedPaths, offsetted.v,
                IslandFilter(offsetted.m, offsetted.v, settings))

\* processPaths from line 284: the close/simplify loop is over.
AfterLoop(o, settings, validPaths, processed) ==
    IF Len(processed.v) = 0
    THEN Processed(Ended(processed.m, Null, "ProcessingError", "close"),
                   validPaths, processed.v, <<>>, <<>>, Unreached)
    ELSE AfterOffsetStage(o, settings, validPaths, processed.v,
                          OffsetStage(processed.m, o, processed.v, settings))

\* processPaths from line 249: the valid paths have been selected.
AfterValidate(m, o, settings, validPaths) ==
    IF Len(validPaths) = 0
    THEN Processed(Ended(m, Null, "ProcessingError", "validate"),
                   validPaths, <<>>, <<>>, <<>>, Unreached)
    ELSE AfterLoop(o, settings, validPaths,
                   CloseAndSimplify(m, o, validPaths, settings, <<>>))

processPaths(m, o, parsed, settings) ==
    AfterValidate(m, o, settings, ValidOnly(m, parsed.paths))

\* tempProject.importSVG(svgString): the parser's own objects.  The markup is
\* the item tree it describes, or Null when it describes none.
RECURSIVE Imported(_, _)
ImportedRest(first, rest) == Return(rest.m, <<first.v>> \o rest.v)

ImportedItem(item, inner) ==
    Return(inner.m, [item EXCEPT !.children = Array(inner.v)])

ImportedFirst(items, first) ==
    ImportedRest(first, Imported(first.m, Tail(items)))

Imported(m, items) ==
    IF items = <<>> THEN Return(m, <<>>)
    ELSE IF Head(items).kind = "Path"
    THEN ImportedFirst(items,
                       Return(Alloc(m, Head(items)), PathRef(NewRef(m))))
    ELSE IF Head(items).kind \in {"Group", "CompoundPath"}
    THEN ImportedFirst(items,
                       ImportedItem(Head(items),
                                    Imported(m, Head(items).children.items)))
    ELSE ImportedFirst(items, Return(m, Head(items)))

ImportedTree(r) == Return(r.m, r.v[1])

kImportSVG(m, o, svgString) ==
    IF Outcome(o, m) = "fault" THEN Throw(LogCall(m, "importSVG"))
    ELSE IF Outcome(o, m) # "ok" \/ svgString.kind = "null"
         THEN Return(LogCall(m, "importSVG"), Null)
         ELSE ImportedTree(Imported(LogCall(m, "importSVG"), <<svgString>>))

\* collectValidPaths: the items still to visit, in document order.
RECURSIVE collect(_, _, _, _)

\* collect from line 274: the path has been cloned.
AfterClone(o, items, paths, cloned) ==
    IF cloned.v.kind # "null"
    THEN collect(cloned.m, o, Tail(items), Append(paths, cloned.v.id))
    ELSE collect(cloned.m, o, Tail(items), paths)

collect(m, o, items, paths) ==
    IF items = <<>> THEN Return(m, paths)
    ELSE IF Head(items).kind = "PathRef"
    THEN IF isValidPath(Deref(m, Head(items)))
         THEN AfterClone(o, items, paths, safeClone(m, o, Head(items)))
         ELSE collect(m, o, Tail(items), paths)
    ELSE IF Head(items).kind = "CompoundPath"
    THEN LET IsPath(child) == child.kind = "PathRef"
         IN  collect(m, o,
                     SelectSeq(Head(items).children.items, IsPath)
                         \o Tail(items),
                     paths)
    ELSE IF Head(items).kind = "Group"
    THEN collect(m, o, Head(items).children.items \o Tail(items), paths)
    ELSE collect(m, o, Tail(items), paths)

collectValidPaths(m, o, item) == collect(m, o, <<item>>, <<>>)

\* bounds.unite(path.bounds) over the valid paths; Null when there is none.
RECURSIVE UnitedBounds(_, _, _)
UnitedBounds(m, paths, bounds) ==
    IF paths = <<>> THEN bounds
    ELSE LET b == m.heap[Head(paths)].bounds
             Max(x, y) == IF x.v >= y.v THEN x ELSE y
         IN  IF isValidPath(m.heap[Head(paths)]) /\ b.kind # "null"
             THEN UnitedBounds(m, Tail(paths),
                      IF bounds.kind = "null" THEN b
                      ELSE Rectangle(Max(bounds.width, b.width),
                                     Max(bounds.height, b.height)))
             ELSE UnitedBounds(m, Tail(paths), bounds)

ParsedSVG(paths, bounds, compoundPath) ==
    [kind |-> "ParsedSVG", paths |-> paths, bounds |-> bounds,
     compoundPath |-> compoundPath]

\* parseSVG from line 55: the compound has been built.
AfterParseCompound(validPaths, bounds, compoundPath) ==
    Ended(compoundPath.m,
          ParsedSVG(validPaths,
                    IF bounds.kind = "null"
                    THEN Rectangle(Num(100), Num(100)) ELSE bounds,
                    compoundPath.v),
          "none", "done")

\* parseSVG from line 37: the valid paths have been collected.
AfterCollect(o, validPaths) ==
    IF Len(validPaths.v) = 0
    THEN Ended(validPaths.m, Null, "ParseError", "collect")
    ELSE AfterParseCompound(
             validPaths.v,
             UnitedBounds(validPaths.m, validPaths.v, Null),
             safeCreateAndUniteCompound(validPaths.m, o, validPaths.v))

\* parseSVG from line 30: the markup has been imported.  A fault of the
\* import passes the finally block and leaves parseSVG.
AfterImport(o, imported) ==
    IF imported.thrown
    THEN Ended(imported.m, Null, "RawFault", "import")
    ELSE IF imported.v.kind = "null"
    THEN Ended(imported.m, Null, "ParseError", "import")
    ELSE AfterCollect(o, collectValidPaths(imported.m, o, imported.v))

\* parseSVG that gives up when the kernel scope already holds paths.
parseSVG_usedScope(m, o, svgString) ==
    IF Len(m.heap) > 0 THEN Ended(m, Null, "ParseError", "import")
    ELSE AfterImport(o, kImportSVG(m, o, svgString))

parseSVG(m, o, svgString) == AfterImport(o, kImportSVG(m, o, svgString))

\* ---------------------------------------------------------------- preflight
\* Lengths of 300 mm and 5 mm in units of 0.0005 mm; 500 points per path.
LARGE_DIMENSION == 600000
SMALL_DIMENSION == 10000
NODE_LIMIT == 500

\* The sign of the turn a -> b -> c.
Orient(a, b, c) ==
    LET cross == (b.x.v - a.x.v) * (c.y.v - a.y.v)
                 - (b.y.v - a.y.v) * (c.x.v - a.x.v)
    IN  IF cross > 0 THEN 1 ELSE IF cross < 0 THEN 0 - 1 ELSE 0

\* The straight edges of a path: between consecutive anchors, and from the
\* last anchor to the first when the path is closed.
EdgeCount(p) ==
    IF p.closed THEN Len(p.segments.items) ELSE Len(p.segments.items) - 1
EdgeStart(p, i) == p.segments.items[i].point
EdgeEnd(p, i) == p.segments.items[(i % Len(p.segments.items)) + 1].point

\* The pairs of edges of a path that cross each other.
Crossings(p) ==
    { e \in (1..EdgeCount(p)) \X (1..EdgeCount(p)) :
        /\ e[1] < e[2]
        /\ Orient(EdgeStart(p, e[1]), EdgeEnd(p, e[1]), EdgeStart(p, e[2]))
             * Orient(EdgeStart(p, e[1]), EdgeEnd(p, e[1]), EdgeEnd(p, e[2]))
             < 0
        /\ Orient(EdgeStart(p, e[2]), EdgeEnd(p, e[2]), EdgeStart(p, e[1]))
             * Orient(EdgeStart(p, e[2]), EdgeEnd(p, e[2]), EdgeEnd(p, e[1]))
             < 0 }

\* One CurveLocation per crossing.
RECURSIVE Locations(_)
Locations(crossings) ==
    IF crossings = {} THEN <<>>
    ELSE LET e == CHOOSE x \in crossings :
                     \A y \in crossings :
                         x[1] < y[1] \/ (x[1] = y[1] /\ x[2] <= y[2])
         IN  <<[kind |-> "CurveLocation", curves |-> e]>>
                 \o Locations(crossings \ {e})

\* path.getIntersections(path); a kernel that goes wrong without faulting
\* reports a crossing that is none.
kGetIntersections(m, o, id) ==
    IF Outcome(o, m) = "fault" THEN Throw(LogCall(m, "getIntersections"))
    ELSE IF Outcome(o, m) = "ok"
    THEN Return(LogCall(m, "getIntersections"),
                Array(Locations(Crossings(m.heap[id]))))
    ELSE Return(LogCall(m, "getIntersections"),
                Array(<<[kind |-> "CurveLocation", curves |-> <<0, 0>>]>>))

\* safePaperOp(...) || []
OrEmpty(r) == IF r.v.kind = "null" THEN Return(r.m, Array(<<>>)) ELSE r

safeGetIntersections(m, o, path) ==
    IF ~isValidPath(Deref(m, path)) THEN Return(m, Array(<<>>))
    ELSE OrEmpty(safePaperOp(kGetIntersections(m, o, path.id)))

PreflightIssue(severity, message) ==
    [severity |-> severity, message |-> message]

\* issues.push(issue) under a condition.
PushIf(condition, severity, message) ==
    IF condition THEN <<PreflightIssue(severity, message)>> ELSE <<>>

PreflightStats(pathCount, closedPaths, openPaths, totalPoints, width, height, hasIntersections, tinyIslandsCount) ==
    [pathCount |-> pathCount, closedPaths |-> closedPaths,
     openPaths |-> openPaths, totalPoints |-> totalPoints,
     boundingBox |-> [width |-> width, height |-> height],
     hasIntersections |-> hasIntersections,
     tinyIslandsCount |-> tinyIslandsCount]

PreflightResult(passed, issues, stats) ==
    [kind |-> "PreflightResult", passed |-> passed, issues |-> issues,
     stats |-> stats]

\* The counting loop of preflightCheck over the valid paths.
ClosedPaths(m, paths) ==
    LET Counted(id) == isValidPath(m.heap[id]) /\ m.heap[id].closed
    IN  Len(SelectSeq(paths, Counted))

\* A count of open paths that finds none.
OpenPaths_none(m, paths) == 0

OpenPaths(m, paths) ==
    LET Counted(id) == isValidPath(m.heap[id]) /\ ~m.heap[id].closed
    IN  Len(SelectSeq(paths, Counted))

InvalidPathCount(m, paths) == Len(paths) - Len(ValidOnly(m, paths))

RECURSIVE TotalPoints(_, _)
TotalPoints(m, paths) ==
    IF paths = <<>> THEN 0
    ELSE (IF isValidPath(m.heap[Head(paths)])
          THEN Len(m.heap[Head(paths)].segments.items) ELSE 0)
         + TotalPoints(m, Tail(paths))

\* The loop over pathsToCheck: it stops at the first path that crosses
\* itself.
RECURSIVE CheckIntersections(_, _, _)
AfterGetIntersections(o, pathsToCheck, intersections) ==
    IF Len(intersections.v.items) > 0 THEN Return(intersections.m, TRUE)
    ELSE CheckIntersections(intersections.m, o, Tail(pathsToCheck))

CheckIntersections(m, o, pathsToCheck) ==
    IF pathsToCheck = <<>> THEN Return(m, FALSE)
    ELSE IF isValidPath(m.heap[Head(pathsToCheck)])
    THEN AfterGetIntersections(o, pathsToCheck,
             safeGetIntersections(m, o, PathRef(Head(pathsToCheck))))
    ELSE CheckIntersections(m, o, Tail(pathsToCheck))

TinyIslandsCount(m, paths, settings) ==
    LET Tiny(id) == /\ isValidPath(m.heap[id])
                    /\ ~GreaterEq(Abs(m.heap[id].area),
                                  settings.removeIslandsThreshold)
                    /\ ~IsNaN(m.heap[id].area)
    IN  Len(SelectSeq(paths, Tiny))

\* Math.max(bounds.width, bounds.height)
MaxDimension(bounds) ==
    IF bounds.width.v >= bounds.height.v THEN bounds.width.v
    ELSE bounds.height.v

\* A test for errors that looks at the last issue only.
HasErrors_lastOnly(issues) ==
    issues # <<>> /\ issues[Len(issues)].severity = "error"

\* issues.some(i => i.severity === 'error')
HasErrors(issues) ==
    \E i \in 1..Len(issues) : issues[i].severity = "error"

\* preflightCheck from line 218: every issue has been pushed.
AfterIssues(m, stats, issues) ==
    Return(m, PreflightResult(~HasErrors(issues), issues, stats))

\* preflightCheck without its test for closed paths (lines 138-146).
AfterCounts_noClosedTest(m, paths, bounds, invalidPathCount, stats) ==
    AfterIssues(m, stats,
        PushIf(invalidPathCount > 0, "error", "invalid paths")
        \o PushIf(stats.openPaths > 0, "warning", "open paths")
        \o PushIf(stats.totalPoints > NODE_LIMIT * Len(paths),
                  "warning", "high node count")
        \o PushIf(stats.hasIntersections, "info", "self-intersections")
        \o PushIf(stats.tinyIslandsCount > 0, "info", "tiny features")
        \o PushIf(MaxDimension(bounds) > LARGE_DIMENSION,
                  "warning", "large SVG")
        \o PushIf(MaxDimension(bounds) < SMALL_DIMENSION,
                  "warning", "very small SVG"))

\* preflightCheck from line 107: the counts are known.
AfterCounts(m, paths, bounds, invalidPathCount, stats) ==
    AfterIssues(m, stats,
        PushIf(invalidPathCount > 0, "error", "invalid paths")
        \o PushIf(stats.openPaths > 0, "warning", "open paths")
        \o PushIf(stats.closedPaths = 0 /\ stats.openPaths > 0,
                  "error", "no closed paths")
        \o PushIf(stats.totalPoints > NODE_LIMIT * Len(paths),
                  "warning", "high node count")
        \o PushIf(stats.hasIntersections, "info", "self-intersections")
        \o PushIf(stats.tinyIslandsCount > 0, "info", "tiny features")
        \o PushIf(MaxDimension(bounds) > LARGE_DIMENSION,
                  "warning", "large SVG")
        \o PushIf(MaxDimension(bounds) < SMALL_DIMENSION,
                  "warning", "very small SVG"))

\* preflightCheck from line 175: the paths have been checked for crossings.
AfterCheck(paths, bounds, settings, hasIntersections) ==
    AfterCounts(hasIntersections.m, paths, bounds,
        InvalidPathCount(hasIntersections.m, paths),
        PreflightStats(Len(paths),
                       ClosedPaths(hasIntersections.m, paths),
                       OpenPaths(hasIntersections.m, paths),
                       TotalPoints(hasIntersections.m, paths),
                       bounds.width, bounds.height,
                       hasIntersections.v,
                       TinyIslandsCount(hasIntersections.m, paths, settings)))

preflightCheck(m, o, parsed, settings) ==
    IF Len(parsed.paths) = 0
    THEN Return(m, PreflightResult(FALSE,
                       <<PreflightIssue("error", "no valid paths")>>,
                       PreflightStats(0, 0, 0, 0, Num(0), Num(0), FALSE, 0)))
    ELSE AfterCheck(parsed.paths, parsed.bounds, settings,
             CheckIntersections(m, o,
                 SubSeq(parsed.paths, 1,
                        IF Len(parsed.paths) < 3 THEN Len(parsed.paths)
                        ELSE 3)))

\* -------------------------------------------------------------- MeshBuilder
\* -x and x + y on JavaScript numbers.
Neg(x) == IF x.t \in {"num", "inf"} THEN [x EXCEPT !.v = 0 - x.v] ELSE NaN
Add(x, y) ==
    IF IsNaN(x) \/ IsNaN(y) THEN NaN
    ELSE IF x.t = "num" /\ y.t = "num" THEN Num(x.v + y.v)
    ELSE IF x.t = "inf" /\ y.t = "inf" /\ x.v # y.v THEN NaN
    ELSE IF x.t = "inf" THEN x ELSE y

\* The calls made on a THREE.Shape.
MoveTo(x, y) == [op |-> "moveTo", x |-> x, y |-> y]
LineTo(x, y) == [op |-> "lineTo", x |-> x, y |-> y]
BezierCurveTo(cp1x, cp1y, cp2x, cp2y, x, y) ==
    [op |-> "bezierCurveTo", cp1x |-> cp1x, cp1y |-> cp1y,
     cp2x |-> cp2x, cp2y |-> cp2y, x |-> x, y |-> y]

Shape(curves, holes) == [kind |-> "Shape", curves |-> curves, holes |-> holes]

\* segment.handleIn && segment.handleIn.length > 0
HasLength(handle) ==
    /\ handle.kind # "null"
    /\ ~IsNaN(handle.x) /\ ~IsNaN(handle.y)
    /\ ~(IsZero(handle.x) /\ IsZero(handle.y))

\* The edge drawn to the segment at index i, which is not the first drawn.
EdgeTo(segments, i) ==
    LET segment == segments[i]
        point == segment.point
        prevSeg == IF i > 1 THEN segments[i - 1] ELSE Null
    IN  IF HasLength(segment.handleIn)
           /\ prevSeg.kind # "null" /\ prevSeg.point.kind # "null"
           /\ prevSeg.handleOut.kind # "null"
           /\ ~IsNaN(prevSeg.point.x) /\ ~IsNaN(prevSeg.point.y)
           /\ ~IsNaN(prevSeg.handleOut.x) /\ ~IsNaN(prevSeg.handleOut.y)
        THEN BezierCurveTo(Add(prevSeg.point.x, prevSeg.handleOut.x),
                           Neg(Add(prevSeg.point.y, prevSeg.handleOut.y)),
                           Add(point.x, segment.handleIn.x),
                           Neg(Add(point.y, segment.handleIn.y)),
                           point.x, Neg(point.y))
        ELSE LineTo(point.x, Neg(point.y))

\* path.segments.forEach(...) of pathToShapes, from the segment at index i.
RECURSIVE Outline(_, _, _, _)
Outline(segments, i, first, curves) ==
    IF i > Len(segments) THEN curves
    ELSE IF segments[i].kind = "null" \/ segments[i].point.kind = "null"
    THEN Outline(segments, i + 1, first, curves)
    ELSE IF IsNaN(segments[i].point.x) \/ IsNaN(segments[i].point.y)
    THEN Outline(segments, i + 1, first, curves)
    ELSE IF first
    THEN Outline(segments, i + 1, FALSE,
                 Append(curves, MoveTo(segments[i].point.x,
                                       Neg(segments[i].point.y))))
    ELSE Outline(segments, i + 1, FALSE, Append(curves, EdgeTo(segments, i)))

\* path.clockwise: the sign of the area the kernel computes.
kClockwise(m, o, path) ==
    IF Outcome(o, m) = "fault" THEN Throw(LogCall(m, "clockwise"))
    ELSE Return(LogCall(m, "clockwise"), GreaterEq(path.area, 0))

\* A hole test that puts every hole under the first shape.
AddShape_firstShape(shapes, shape, isHole) ==
    IF isHole /\ Len(shapes) > 0
    THEN [shapes EXCEPT ![1].holes = Append(@, shape)]
    ELSE Append(shapes, shape)

\* pathToShapes lines 153-158: a hole of the last shape, or a new shape.
AddShape(shapes, shape, isHole) ==
    IF isHole /\ Len(shapes) > 0
    THEN [shapes EXCEPT ![Len(shapes)].holes = Append(@, shape)]
    ELSE Append(shapes, shape)

\* compoundPath.children.forEach(...) of pathToShapes.
RECURSIVE ChildrenToShapes(_, _, _, _)

\* The loop body from line 151: the winding has been read; a fault is caught
\* and the child skipped.
AfterClockwise(o, children, shapes, isHole) ==
    IF isHole.thrown
    THEN ChildrenToShapes(isHole.m, o, Tail(children), shapes)
    ELSE ChildrenToShapes(isHole.m, o, Tail(children),
             AddShape(shapes,
                      Shape(Outline(Head(children).segments.items, 1, TRUE,
                                    <<>>),
                            <<>>),
                      isHole.v))

\* A loop that takes a path of any number of segments.
ChildrenToShapes_noMinimum(m, o, children, shapes) ==
    IF children = <<>> THEN Return(m, shapes)
    ELSE IF Head(children).kind # "Path"
    THEN ChildrenToShapes(m, o, Tail(children), shapes)
    ELSE IF ~isValidPath(Head(children))
    THEN ChildrenToShapes(m, o, Tail(children), shapes)
    ELSE AfterClockwise(o, children, shapes,
                        kClockwise(m, o, Head(children)))

ChildrenToShapes(m, o, children, shapes) ==
    IF children = <<>> THEN Return(m, shapes)
    ELSE IF Head(children).kind # "Path"
    THEN ChildrenToShapes(m, o, Tail(children), shapes)
    ELSE IF ~isValidPath(Head(children))
    THEN ChildrenToShapes(m, o, Tail(children), shapes)
    ELSE IF Len(Head(children).segments.items) < 3
    THEN ChildrenToShapes(m, o, Tail(children), shapes)
    ELSE AfterClockwise(o, children, shapes,
                        kClockwise(m, o, Head(children)))

pathToShapes(m, o, compoundPath) ==
    IF compoundPath.children.kind = "null"
       \/ Len(compoundPath.children.items) = 0
    THEN Return(m, <<>>)
    ELSE ChildrenToShapes(m, o, compoundPath.children.items, <<>>)

\* A THREE.BufferGeometry: its position and normal attributes, one element
\* per vertex, and its index; Null for what it lacks.
BufferGeometry(position, normal, index) ==
    [kind |-> "BufferGeometry", position |-> position, normal |-> normal,
     index |-> index]

\* pos.count and idx.count
Count(attribute) == IF attribute.kind = "null" THEN 0 ELSE Len(attribute.items)

RECURSIVE TotalCount(_, _)
TotalCount(geometries, attribute) ==
    IF geometries = <<>> THEN 0
    ELSE Count(Head(geometries)[attribute])
         + TotalCount(Tail(geometries), attribute)

\* new Float32Array(n)
Zeros(n) == [i \in 1..n |-> 0]

\* typedArray.set(array, offset)
SetAt(target, array, offset) ==
    [i \in 1..Len(target) |->
        IF i > offset /\ i <= offset + Len(array) THEN array[i - offset]
        ELSE target[i]]

\* The merge loop of mergeGeometries; currentVertex always equals
\* vertexOffset.
RECURSIVE MergeLoop(_, _, _, _, _, _)

\* A merge loop that copies the indices as they are.
MergeLoop_noShift(geometries, positions, normals, indices, vertexOffset, indexOffset) ==
    IF geometries = <<>>
    THEN BufferGeometry(Array(positions), Array(normals), Array(indices))
    ELSE MergeLoop(
             Tail(geometries),
             IF Head(geometries).position.kind # "null"
             THEN SetAt(positions, Head(geometries).position.items,
                        vertexOffset)
             ELSE positions,
             IF Head(geometries).position.kind # "null"
                /\ Head(geometries).normal.kind # "null"
             THEN SetAt(normals, Head(geometries).normal.items, vertexOffset)
             ELSE normals,
             IF Head(geometries).index.kind # "null"
             THEN SetAt(indices, Head(geometries).index.items, indexOffset)
             ELSE indices,
             vertexOffset + Count(Head(geometries).position),
             indexOffset + Count(Head(geometries).index))

MergeLoop(geometries, positions, normals, indices, vertexOffset, indexOffset) ==
    IF geometries = <<>>
    THEN BufferGeometry(Array(positions), Array(normals), Array(indices))
    ELSE LET geo == Head(geometries)
             pos == geo.position
             norm == geo.normal
             idx == geo.index
         IN  MergeLoop(
                 Tail(geometries),
                 IF pos.kind # "null"
                 THEN SetAt(positions, pos.items, vertexOffset)
                 ELSE positions,
                 IF pos.kind # "null" /\ norm.kind # "null"
                 THEN SetAt(normals, norm.items, vertexOffset)
                 ELSE normals,
                 IF idx.kind # "null"
                 THEN SetAt(indices,
                            [i \in 1..Len(idx.items) |->
                                idx.items[i] + vertexOffset],
                            indexOffset)
                 ELSE indices,
                 vertexOffset + Count(pos),
                 indexOffset + Count(idx))

mergeGeometries(geometries) ==
    MergeLoop(geometries,
              Zeros(TotalCount(geometries, "position")),
              Zeros(TotalCount(geometries, "position")),
              Zeros(TotalCount(geometries, "index")),
              0, 0)

\* The messages of the errors the mesh builder throws itself.
INVALID_COMPOUND == "Invalid compound path passed to mesh generator"
NO_SHAPES == "No valid shapes generated from SVG geometry"
EXTRUDE_FAILED == "Failed to extrude geometry."
INVALID_GEOMETRY == "Invalid geometry passed to 3D generator"
\* The message of an error the library threw.
LIBRARY_FAULT == "library fault"

\* The curves of a shape and of its holes.
RECURSIVE CurveCount(_)
CurveCount(shapes) ==
    IF shapes = <<>> THEN 0
    ELSE Len(Head(shapes).curves) + CurveCount(Head(shapes).holes)
         + CurveCount(Tail(shapes))

\* new THREE.ExtrudeGeometry(shape, {depth}): a geometry without an index,
\* three vertices for every curve of the shape, each vertex told here by the
\* depth it was extruded to; or a fault.
kExtrude(m, o, shape, depth) ==
    IF Outcome(o, m) = "fault" THEN Throw(LogCall(m, "extrude"))
    ELSE Return(LogCall(m, "extrude"),
                BufferGeometry(
                    Array([i \in 1..(3 * CurveCount(<<shape>>)) |-> depth]),
                    Array([i \in 1..(3 * CurveCount(<<shape>>)) |-> 1]),
                    Null))

\* shapes.map(shape => new THREE.ExtrudeGeometry(shape, settings)): a fault
\* of one extrusion ends the whole map.
RECURSIVE ExtrudeAll(_, _, _, _, _)
AfterMapExtrude(o, shapes, depth, geometries, r) ==
    IF r.thrown THEN r
    ELSE ExtrudeAll(r.m, o, Tail(shapes), depth, Append(geometries, r.v))

ExtrudeAll(m, o, shapes, depth, geometries) ==
    IF shapes = <<>> THEN Return(m, geometries)
    ELSE AfterMapExtrude(o, shapes, depth, geometries,
                         kExtrude(m, o, Head(shapes), depth))

AfterExtrudeAll(r) ==
    IF r.thrown THEN r ELSE Return(r.m, mergeGeometries(r.v))

\* One shape is extruded as it is; several are extruded and merged.
ExtrudeShapes(m, o, shapes, depth) ==
    IF Len(shapes) = 1 THEN kExtrude(m, o, shapes[1], depth)
    ELSE AfterExtrudeAll(ExtrudeAll(m, o, shapes, depth, <<>>))

\* createBase from line 179: the shapes of the base have been made.
AfterBaseShapes(o, thickness, shapes) ==
    IF Len(shapes.v) = 0 THEN Throw(shapes.m)
    ELSE ExtrudeShapes(shapes.m, o, shapes.v, thickness)

createBase(m, o, compoundPath, thickness) ==
    IF ~isValidCompoundPath(compoundPath) THEN Throw(m)
    ELSE AfterBaseShapes(o, thickness, pathToShapes(m, o, compoundPath))

\* geometry.center(): the positions moved so that the middle of their range
\* is 0.
Middle(items) ==
    LET values == { items[i] : i \in 1..Len(items) }
        Least == CHOOSE x \in values : \A y \in values : x <= y
        Most == CHOOSE x \in values : \A y \in values : x >= y
    IN  (Least + Most) \div 2

Shifted(items, by) == [i \in 1..Len(items) |-> items[i] - by]

Centered(geometry) ==
    IF Count(geometry.position) = 0 THEN geometry
    ELSE [geometry EXCEPT !.position =
             Array(Shifted(geometry.position.items,
                           Middle(geometry.position.items)))]

\* geometry.computeVertexNormals(): one normal for every vertex.
WithVertexNormals(geometry) ==
    [geometry EXCEPT !.normal =
        Array([i \in 1..Count(geometry.position) |-> 1])]

\* new THREE.Mesh(geometry, material)
Mesh(geometry) == [kind |-> "Mesh", geometry |-> geometry]

\* How generateMesh ended: the mesh or the message of the error thrown, the
\* geometry of the main body and that of the base (Unreached when it was
\* not reached, Null for a base that was dropped).
MeshBuilt(m, v, error, main, base) ==
    [m |-> m, v |-> v, error |-> error, main |-> main, base |-> base]

\* generateMesh from line 60: the geometry is complete.
AfterGeometry(m, geometry, main, base) ==
    MeshBuilt(m, Mesh(WithVertexNormals(Centered(geometry))), "none", main,
              base)

\* generateMesh that lets a failure of the base leave it.
AfterBase_thrown(geometry, base) ==
    IF base.thrown
    THEN MeshBuilt(base.m, Null, LIBRARY_FAULT, geometry.v, Null)
    ELSE AfterGeometry(base.m, mergeGeometries(<<geometry.v, base.v>>),
                       geometry.v, base.v)

\* generateMesh from line 54: the base has been made, or has failed.
AfterBase(geometry, base) ==
    IF base.thrown
    THEN AfterGeometry(base.m, geometry.v, geometry.v, Null)
    ELSE AfterGeometry(base.m, mergeGeometries(<<geometry.v, base.v>>),
                       geometry.v, base.v)

\* generateMesh from line 42: the shapes have been extruded, or a fault has
\* been caught.
AfterExtrude(o, compoundPath, settings, geometry) ==
    IF geometry.thrown
    THEN MeshBuilt(geometry.m, Null, EXTRUDE_FAILED, Unreached, Unreached)
    ELSE IF settings.baseThickness > 0
    THEN AfterBase(geometry,
                   createBase(geometry.m, o, compoundPath,
                              settings.baseThickness))
    ELSE AfterGeometry(geometry.m, geometry.v, geometry.v, Unreached)

\* generateMesh from line 19: the shapes have been made.
AfterShapes(o, compoundPath, settings, shapes) ==
    IF Len(shapes.v) = 0
    THEN MeshBuilt(shapes.m, Null, NO_SHAPES, Unreached, Unreached)
    ELSE AfterExtrude(o, compoundPath, settings,
                      ExtrudeShapes(shapes.m, o, shapes.v,
                                    settings.thickness))

generateMesh(m, o, compoundPath, settings) ==
    IF ~isValidCompoundPath(compoundPath)
    THEN MeshBuilt(m, Null, INVALID_COMPOUND, Unreached, Unreached)
    ELSE AfterShapes(o, compoundPath, settings,
                     pathToShapes(m, o, compoundPath))

\* exporter.parse(mesh, {binary: true}) and new Blob([result]): the blob
\* holds the triangles of the mesh; or a fault.
exportSTL(m, o, mesh) ==
    IF Outcome(o, m) = "fault" THEN Throw(LogCall(m, "parse"))
    ELSE Return(LogCall(m, "parse"),
                [kind |-> "Blob", type |-> "application/octet-stream",
                 vertices |-> Count(mesh.geometry.position)])

\* A GenerationResult; Undefined for a field that is absent.  Time is
\* counted in library calls.
GenerationResult(success, stlBlob, error, processingTime) ==
    [success |-> success, stlBlob |-> stlBlob, error |-> error,
     processingTime |-> processingTime]

\* What generate3DModel leaves: the machine, whether the promise was
\* rejected, and the GenerationResult it resolved to.
Generated(m, thrown, v, mesh) ==
    [m |-> m, thrown |-> thrown, v |-> v, mesh |-> mesh]

\* generate3DModel that awaits the export outside its try block.
AfterExport_uncaught(startTime, mesh, stlBlob) ==
    IF stlBlob.thrown
    THEN Generated(stlBlob.m, TRUE, Null, mesh)
    ELSE Generated(stlBlob.m, FALSE,
                   GenerationResult(TRUE, stlBlob.v, Undefined,
                                    Num(Len(stlBlob.m.calls) - startTime)),
                   mesh)

\* generate3DModel from line 281: the export is over.
AfterExport(startTime, mesh, stlBlob) ==
    IF stlBlob.thrown
    THEN Generated(stlBlob.m, FALSE,
                   GenerationResult(FALSE, Undefined, LIBRARY_FAULT,
                                    Num(Len(stlBlob.m.calls) - startTime)),
                   mesh)
    ELSE Generated(stlBlob.m, FALSE,
                   GenerationResult(TRUE, stlBlob.v, Undefined,
                                    Num(Len(stlBlob.m.calls) - startTime)),
                   mesh)

\* generate3DModel from line 279: the mesh has been built, or has failed.
AfterMesh(o, startTime, mesh) ==
    IF mesh.error # "none"
    THEN Generated(mesh.m, FALSE,
                   GenerationResult(FALSE, Undefined, mesh.error,
                                    Num(Len(mesh.m.calls) - startTime)),
                   mesh)
    ELSE AfterExport(startTime, mesh, exportSTL(mesh.m, o, mesh.v))

generate3DModel(m, o, compoundPath, settings) ==
    IF ~isValidCompoundPath(compoundPath)
    THEN Generated(m, FALSE,
                   GenerationResult(FALSE, Undefined, INVALID_GEOMETRY,
                                    Num(0)),
                   MeshBuilt(m, Null, INVALID_GEOMETRY, Unreached, Unreached))
    ELSE AfterMesh(o, Len(m.calls),
                   generateMesh(m, o, compoundPath, settings))

\* ------------------------------------------------------------------- state
VARIABLES
    svgContent,   \* the markup of the request (App state)
    settings,     \* the ProfileSettings of the request
    heap,         \* the Path objects of the kernel scope, by reference
    parsed,       \* the ParsedSVG of the last parseSVG, or Null
    pc,           \* where the request stands
    run,          \* ordinal of the conversion run
    result,       \* what the last call was given and what it gave
    done,         \* outcome of every finished run
    probe,        \* the value handed to a validator
    verdict,      \* what the validator answered
    app           \* the state of the App component and of the window

vars == <<svgContent, settings, heap, parsed, pc, run, result, done,
          probe, verdict, app>>

NoResult == [fn |-> "none"]
NoSettings == [offset |-> 0, simplifyTolerance |-> 0,
               removeIslandsThreshold |-> 0]

\* ------------------------------------------------------------ sample shapes
Triangle ==
    Path(Array(<<Corner(0, 0), Corner(4, 0), Corner(0, 4)>>), FALSE,
         Rectangle(Num(4), Num(4)), Num(14), Num(8))
Square ==
    Path(Array(<<Corner(0, 0), Corner(3, 0), Corner(3, 3), Corner(0, 3)>>),
         TRUE, Rectangle(Num(3), Num(3)), Num(12), Num(9))
\* A closed island of area 1.
Speck ==
    Path(Array(<<Corner(5, 5), Corner(6, 5), Corner(6, 6), Corner(5, 6)>>),
         TRUE, Rectangle(Num(1), Num(1)), Num(4), Num(1))

\* ------------------------------------------------- specification: validators
SegmentSamples ==
    { Corner(0, 0), Corner(1, 0),
      Null,
      Segment(Null, Null, Null),
      Segment(Point(NaN, Num(0)), Null, Null),
      Segment(Point(Num(1), Undefined), Null, Null),
      Segment(Point(Infinity, Num(1)), Null, Null),
      Segment(Point(Num(1), Num(1)), Point(NaN, Num(0)), Null),
      Segment(Point(Num(1), Num(1)), Null, Point(Infinity, Num(0))),
      Segment(Point(Num(1), Num(1)), Point(Num(1), Num(0)),
              Point(Num(0), Num(1))) }

SegmentArrays ==
    UNION { [1..n -> SegmentSamples] : n \in 0..MaxSegs }

BoundsSamples ==
    { Null, Rectangle(NaN, Num(1)), Rectangle(Num(1), Infinity),
      Rectangle(Num(0), Num(0)), Rectangle(Num(1), Num(0)),
      Rectangle(Num(1), Num(1)) }

LengthSamples == { Num(0), Num(2), NaN, Undefined, Infinity }

PathProbes ==
    { Path(Array(segs), FALSE, b, l, Num(1)) :
          segs \in SegmentArrays, b \in BoundsSamples, l \in LengthSamples }
    \cup { Path(Null, FALSE, Rectangle(Num(1), Num(1)), Num(2), Num(1)) }

\* The children met in a CompoundPath: paths, sound or not, and an item of
\* another class.
ChildSamples ==
    { Triangle, Square, Broken(Triangle, "nan"), Broken(Square, "collapse"),
      Group(Array(<<>>)) }

CompoundProbes ==
    { CompoundPath(Array(children), 0) :
          children \in UNION { [1..n -> ChildSamples] : n \in 0..2 } }
    \cup { CompoundPath(Null, 0) }

Probes ==
    PathProbes \cup CompoundProbes \cup { Null, Group(Array(<<>>)) }

InitValidator ==
    /\ probe \in Probes
    /\ verdict = Null
    /\ pc = "probe"
    /\ svgContent = Null /\ settings = NoSettings /\ heap = <<>>
    /\ parsed = Null /\ run = 0 /\ result = NoResult /\ done = <<>>
    /\ app = Null

\* isValidPath(probe)
ValidatePath ==
    /\ pc = "probe"
    /\ verdict' = [kind |-> "Boolean", fn |-> "isValidPath",
                   value |-> isValidPath(probe)]
    /\ pc' = "answered"
    /\ UNCHANGED <<app, svgContent, settings, heap, parsed, run, result, done,
                   probe>>

\* isValidCompoundPath(probe)
ValidateCompound ==
    /\ pc = "probe"
    /\ verdict' = [kind |-> "Boolean", fn |-> "isValidCompoundPath",
                   value |-> isValidCompoundPath(probe)]
    /\ pc' = "answered"
    /\ UNCHANGED <<app, svgContent, settings, heap, parsed, run, result, done,
                   probe>>

NextValidator ==
    \/ ValidatePath
    \/ ValidateCompound

SpecValidator == InitValidator /\ [][NextValidator]_vars

\* What the claims say of a probe, read off the probe itself.
IsPathObject(p) == p.kind = "Path" /\ p.segments.kind = "Array"
SegmentsOf(p) == p.segments.items
HasMissingSegment(p) ==
    /\ IsPathObject(p)
    /\ \E i \in 1..Len(SegmentsOf(p)) :
          \/ SegmentsOf(p)[i].kind = "null"
          \/ SegmentsOf(p)[i].point.kind = "null"
HasNaNAnchor(p) ==
    /\ IsPathObject(p)
    /\ \E i \in 1..Len(SegmentsOf(p)) :
          /\ SegmentsOf(p)[i].kind # "null"
          /\ SegmentsOf(p)[i].point.kind # "null"
          /\ NaN \in {SegmentsOf(p)[i].point.x, SegmentsOf(p)[i].point.y}
HasFewSegments(p) == IsPathObject(p) /\ Len(SegmentsOf(p)) < 2
HasZeroLength(p) == p.kind = "Path" /\ p.length = Num(0)

\* C1: isValidPath answers false for every path that has a NaN anchor
\* coordinate, a null or missing segment (or a segment without a point),
\* fewer than 2 segments, or zero length.
C1_InvalidPathsRejected ==
    (pc = "answered" /\ verdict.fn = "isValidPath"
       /\ (\/ HasNaNAnchor(probe) \/ HasMissingSegment(probe)
           \/ HasFewSegments(probe) \/ HasZeroLength(probe)))
    => verdict.value = FALSE

\* A path whose only defect is its zero length has been rejected.
C1_Witness ==
    /\ pc = "answered" /\ verdict.fn = "isValidPath"
    /\ HasZeroLength(probe)
    /\ ~HasNaNAnchor(probe) /\ ~HasMissingSegment(probe)
    /\ ~HasFewSegments(probe)
    /\ probe.bounds = Rectangle(Num(1), Num(1))
    /\ verdict.value = FALSE

\* typeof x === 'number' && isFinite(x)
FiniteNumber(x) == x.t = "num"

FinitePoint(p) == FiniteNumber(p.x) /\ FiniteNumber(p.y)

\* Every segment of the path has a finite anchor and, where it has handles,
\* finite handles.
FiniteSegments(p) ==
    \A i \in 1..Len(SegmentsOf(p)) :
        /\ SegmentsOf(p)[i].kind # "null"
        /\ SegmentsOf(p)[i].point.kind # "null"
        /\ FinitePoint(SegmentsOf(p)[i].point)
        /\ SegmentsOf(p)[i].handleIn.kind # "null"
               => FinitePoint(SegmentsOf(p)[i].handleIn)
        /\ SegmentsOf(p)[i].handleOut.kind # "null"
               => FinitePoint(SegmentsOf(p)[i].handleOut)

\* The box of the path has a finite width and height, not both zero.
ProperBounds(p) ==
    /\ p.bounds.kind # "null"
    /\ FiniteNumber(p.bounds.width) /\ FiniteNumber(p.bounds.height)
    /\ ~(p.bounds.width.v = 0 /\ p.bounds.height.v = 0)

\* C12 (as stated): isValidPath(p) is true exactly when p has at least 2
\* segments, every anchor and every handle that is present has finite
\* coordinates, the bounding box has a finite width and height that are not
\* both zero, and the length is a positive finite number.
C12_ValidIffWellFormed ==
    (pc = "answered" /\ verdict.fn = "isValidPath") =>
        (verdict.value <=>
            /\ IsPathObject(probe)
            /\ Len(SegmentsOf(probe)) >= 2
            /\ FiniteSegments(probe)
            /\ ProperBounds(probe)
            /\ FiniteNumber(probe.length) /\ probe.length.v > 0)

\* The answer was given by isValidCompoundPath.
CompoundAnswered == pc = "answered" /\ verdict.fn = "isValidCompoundPath"

\* The probe is a CompoundPath with at least one child.
HasChildren(c) ==
    /\ c.kind = "CompoundPath" /\ c.children.kind = "Array"
    /\ Len(c.children.items) >= 1

Oracles(n, k, ways) ==
    UNION { [calls -> ways] :
              calls \in { c \in SUBSET (1..n) : Cardinality(c) <= k } }

\* To the pipeline every invalid result is the same; it meets one kind.
PipelineOutcomes == {"fault", "nan"}

\* The oracle of a kernel that never fails.
NoFailure == [i \in {} |-> "ok"]

\* The part of an oracle a run consulted.
Effective(o, calls) ==
    [i \in (DOMAIN o) \cap (1..Len(calls)) |-> o[i]]

\* ------------------------------------------- specification: safe operations
\* A safe operation on the two paths of the heap makes at most two calls.
OpsOracles == Oracles(Len(heap), MaxFaults, BadOutcomes)

OpsPaths == { Triangle, Square, Broken(Triangle, "nan"),
              Broken(Square, "collapse") }

InitOps ==
    /\ \E p \in OpsPaths : heap = <<p, Speck>>
    /\ \E d \in (0 - MaxOffset)..MaxOffset, t \in {0, 1} :
          settings = [offset |-> d, simplifyTolerance |-> t,
                      removeIslandsThreshold |-> 0]
    /\ pc = "ready"
    /\ result = NoResult
    /\ svgContent = Null /\ parsed = Null /\ run = 0 /\ done = <<>>
    /\ probe = Null /\ verdict = Null
    /\ app = Null

\* What a call of a safe operation on the path heap[1] leaves in `result`.
Called(fn, r, o) ==
    [fn |-> fn, v |-> r.v, thrown |-> r.thrown, calls |-> r.m.calls,
     oracle |-> Effective(o, r.m.calls), before |-> heap]

CallSafeOffset ==
    /\ pc = "ready"
    /\ \E o \in OpsOracles :
          LET r == safeOffset(Machine(heap, <<>>), o, PathRef(1),
                              settings.offset)
          IN  /\ result' = Called("safeOffset", r, o)
              /\ heap' = r.m.heap
    /\ pc' = "called"
    /\ UNCHANGED <<app, svgContent, settings, parsed, run, done, probe, verdict>>

CallSafeSimplify ==
    /\ pc = "ready"
    /\ \E o \in OpsOracles :
          LET r == safeSimplify(Machine(heap, <<>>), o, PathRef(1),
                                settings.simplifyTolerance)
          IN  /\ result' = Called("safeSimplify", r, o)
              /\ heap' = r.m.heap
    /\ pc' = "called"
    /\ UNCHANGED <<app, svgContent, settings, parsed, run, done, probe, verdict>>

CallSafeClosePath ==
    /\ pc = "ready"
    /\ \E o \in OpsOracles :
          LET r == safeClosePath(Machine(heap, <<>>), o, PathRef(1))
          IN  /\ result' = Called("safeClosePath", r, o)
              /\ heap' = r.m.heap
    /\ pc' = "called"
    /\ UNCHANGED <<app, svgContent, settings, parsed, run, done, probe, verdict>>

\* The operations handed to safePaperOp: kernel calls that return a Path, a
\* CompoundPath or something else (a number).
Operation(name, m, o) ==
    CASE name = "clone" -> kClone(m, o, 1)
      [] name = "closePath" -> kClosePath(m, o, 1)
      [] name = "offsetPath" -> kOffsetPath(m, o, 1, settings.offset)
      [] name = "CompoundPath creation" -> kNewCompound(m, o, <<1, 2>>)
      [] name = "length" ->
            IF Outcome(o, m) = "fault" THEN Throw(LogCall(m, "length"))
            ELSE Return(LogCall(m, "length"), m.heap[1].length)

OperationNames ==
    {"clone", "closePath", "offsetPath", "CompoundPath creation", "length"}

CallSafePaperOp ==
    /\ pc = "ready"
    /\ \E o \in OpsOracles, name \in OperationNames :
          LET op == Operation(name, Machine(heap, <<>>), o)
              r == safePaperOp(op)
          IN  /\ result' = [Called("safePaperOp", r, o) EXCEPT
                               !.fn = "safePaperOp"]
                             @@ [operation |-> [name |-> name, v |-> op.v,
                                                thrown |-> op.thrown]]
              /\ heap' = r.m.heap
    /\ pc' = "called"
    /\ UNCHANGED <<app, svgContent, settings, parsed, run, done, probe, verdict>>

\* The lists of paths handed to safeCreateAndUniteCompound.
PathLists == { <<>>, <<1>>, <<2>>, <<1, 2>>, <<2, 1>>, <<1, 1>> }

\* Cloning every path of a list and uniting the clones makes at most one
\* call more than the list has paths.
ListOracles(paths) == Oracles(Len(paths) + 1, MaxFaults, BadOutcomes)

\* safeCreateAndUniteCompound(paths) has run as r under the oracle o.
CreatedAndUnited(paths, o, r) ==
    /\ result' = [fn |-> "safeCreateAndUniteCompound", v |-> r.v,
                  thrown |-> r.thrown, calls |-> r.m.calls,
                  oracle |-> Effective(o, r.m.calls), before |-> heap,
                  paths |-> paths]
    /\ heap' = r.m.heap

CallSafeCreateAndUniteCompound ==
    /\ pc = "ready"
    /\ \E paths \in PathLists :
          \E o \in ListOracles(paths) :
             CreatedAndUnited(paths, o,
                 safeCreateAndUniteCompound(Machine(heap, <<>>), o, paths))
    /\ pc' = "called"
    /\ UNCHANGED <<app, svgContent, settings, parsed, run, done, probe, verdict>>

\* The path items handed to safeUnite: the paths of the heap and compounds
\* of them, one of these without children.
PathItems ==
    { PathRef(1), PathRef(2),
      CompoundPath(Array(<<heap[1], heap[2]>>), 0),
      CompoundPath(Array(<<heap[2]>>), 0),
      CompoundPath(Array(<<>>), 0) }

\* safeUnite(path1, path2) has run as r under the oracle o.
UnitedSafely(path1, path2, o, r) ==
    /\ result' = [fn |-> "safeUnite", v |-> r.v, thrown |-> r.thrown,
                  calls |-> r.m.calls, oracle |-> Effective(o, r.m.calls),
                  before |-> heap, path1 |-> path1, path2 |-> path2]
    /\ heap' = r.m.heap

CallSafeUnite ==
    /\ pc = "ready"
    /\ \E path1 \in PathItems, path2 \in PathItems :
          \E o \in Oracles(1, MaxFaults, BadOutcomes) :
             UnitedSafely(path1, path2, o,
                          safeUnite(Machine(heap, <<>>), o, path1, path2))
    /\ pc' = "called"
    /\ UNCHANGED <<app, svgContent, settings, parsed, run, done, probe, verdict>>

NextOps ==
    \/ CallSafeUnite
    \/ CallSafeOffset
    \/ CallSafeSimplify
    \/ CallSafeClosePath
    \/ CallSafePaperOp
    \/ CallSafeCreateAndUniteCompound

SpecOps == InitOps /\ [][NextOps]_vars

\* The value an operation produced is a Path or CompoundPath that fails its
\* validator.
ProducedInvalid(operation) ==
    \/ operation.v.kind = "PathRef" /\ ~isValidPath(heap[operation.v.id])
    \/ operation.v.kind = "CompoundPath" /\ ~isValidCompoundPath(operation.v)

\* C3: safePaperOp never propagates a fault: it returns null when the
\* operation throws, null when the operation returns a Path or CompoundPath
\* that fails its validator, and the operation's own result otherwise.
C3_SafePaperOpTotal ==
    result.fn = "safePaperOp" =>
        /\ ~result.thrown
        /\ (result.operation.thrown => result.v = Null)
        /\ (~result.operation.thrown /\ ProducedInvalid(result.operation)
               => result.v = Null)
        /\ (~result.operation.thrown /\ ~ProducedInvalid(result.operation)
               => result.v = result.operation.v)

\* safePaperOp has turned an invalid CompoundPath into null.
C3_Witness ==
    /\ result.fn = "safePaperOp"
    /\ ~result.operation.thrown
    /\ result.operation.v.kind = "CompoundPath"
    /\ ~isValidCompoundPath(result.operation.v)
    /\ result.v = Null

NearZero(offset) == AbsInt(offset) < OFFSET_EPSILON

\* C8 as stated: for every path p and every d with |d| < 0.001,
\* safeOffset(p, d) returns p itself, unchanged, without a kernel call.
C8_AnyPathIdentity ==
    (result.fn = "safeOffset" /\ NearZero(settings.offset)) =>
        /\ result.v = PathRef(1)
        /\ result.calls = <<>>
        /\ heap = result.before

\* C8 as amended: for every path p that satisfies isValidPath and every d
\* with |d| < 0.001, safeOffset(p, d) returns p itself, unchanged, without a
\* kernel call; for a p that fails isValidPath it returns none, also without
\* a kernel call.
C8_ValidPathIdentity ==
    (result.fn = "safeOffset" /\ NearZero(settings.offset)) =>
        /\ result.v = IF isValidPath(result.before[1]) THEN PathRef(1)
                      ELSE Null
        /\ result.calls = <<>>
        /\ heap = result.before

\* safeOffset has returned a valid path itself for an offset that is
\* near zero but not zero.
C8_Witness ==
    /\ result.fn = "safeOffset"
    /\ settings.offset = 1
    /\ isValidPath(result.before[1])
    /\ result.v = PathRef(1)

\* The one kernel call of the safe operation faulted or produced an invalid
\* path.
KernelCallFailed == result.calls # <<>> /\ 1 \in DOMAIN result.oracle

\* C9: when the kernel call inside safeClosePath, safeSimplify or safeOffset
\* faults or produces an invalid path, the function returns its input path,
\* with the geometry (segments and closed flag) it had before the call.
C9_FallbackIsUnmodifiedInput ==
    (result.fn \in {"safeClosePath", "safeSimplify", "safeOffset"}
       /\ KernelCallFailed) =>
        /\ result.v = PathRef(1)
        /\ heap[1].segments = result.before[1].segments
        /\ heap[1].closed = result.before[1].closed

\* The last call was safeCreateAndUniteCompound.
CreateCalled == result.fn = "safeCreateAndUniteCompound"

\* The paths of the list that satisfied isValidPath at the call, in order.
ValidGiven == ValidOnly(Machine(result.before, <<>>), result.paths)

\* The values of the valid paths of the list.
ValidValues == [i \in 1..Len(ValidGiven) |-> result.before[ValidGiven[i]]]

\* A clone taken for the compound faulted or came out invalid.
CreationFailed == \E i \in DOMAIN result.oracle : i <= Len(ValidGiven)

\* The self-union faulted or gave an invalid result.
UnionFailed == (Len(ValidGiven) + 1) \in DOMAIN result.oracle

\* C11 as stated: safeCreateAndUniteCompound(paths) returns none exactly
\* when no element of paths satisfies isValidPath, and a valid compound
\* whenever one does.
C11_NoneIffNoValid ==
    CreateCalled =>
        /\ result.v = Null <=> Len(ValidGiven) = 0
        /\ Len(ValidGiven) > 0 => isValidCompoundPath(result.v)

\* C11 as amended: safeCreateAndUniteCompound(paths) returns none exactly
\* when no element of paths satisfies isValidPath or the creation of the
\* compound from the clones fails; otherwise it returns a compound that
\* satisfies isValidCompoundPath, and when the self-union fails that
\* compound is the one built from the clones of the valid paths.
C11_NoneIffNoValidOrNoCompound ==
    CreateCalled =>
        /\ ~result.thrown
        /\ result.v = Null <=> (Len(ValidGiven) = 0 \/ CreationFailed)
        /\ result.v # Null => isValidCompoundPath(result.v)
        /\ (result.v # Null /\ UnionFailed) =>
               result.v.children.items = ValidValues

\* The self-union of two valid paths failed and the compound of their clones
\* was returned.
C11_Witness ==
    /\ CreateCalled
    /\ Len(ValidGiven) = 2
    /\ UnionFailed
    /\ isValidCompoundPath(result.v)
    /\ result.v.children.items = ValidValues

\* The self-union was made and gave a valid result.
UnionSucceeded ==
    /\ CreateCalled
    /\ Len(ValidGiven) > 0 /\ ~CreationFailed
    /\ Len(result.calls) = Len(ValidGiven) + 1
    /\ result.calls[Len(result.calls)] = "unite"
    /\ ~UnionFailed

\* C27 (as stated): whenever the self-union succeeds,
\* safeCreateAndUniteCompound returns what the union gave: the paths of the
\* value it returns are the paths of the union, in which paths that overlap
\* have been merged.
C27_UnionReturned ==
    UnionSucceeded =>
        result.v.children.items = Merged(ValidValues \o ValidValues, <<>>)

\* The last call was safeUnite.
UniteCalled == result.fn = "safeUnite"

\* The operand was, at the call, a Path that fails isValidPath or a
\* CompoundPath that fails isValidCompoundPath.
InvalidOperand(item) ==
    \/ item.kind = "PathRef" /\ ~isValidPath(result.before[item.id])
    \/ item.kind = "CompoundPath" /\ ~isValidCompoundPath(item)

\* C14: safeUnite(a, b) returns none, the kernel union not being invoked,
\* whenever a or b is a Path failing isValidPath or a CompoundPath failing
\* isValidCompoundPath; and a Path or CompoundPath it returns satisfies its
\* validator.
C14_SafeUniteGuarded ==
    UniteCalled =>
        /\ ~result.thrown
        /\ (InvalidOperand(result.path1) \/ InvalidOperand(result.path2)) =>
               (result.v = Null /\ result.calls = <<>>)
        /\ result.v.kind = "PathRef" => isValidPath(heap[result.v.id])
        /\ result.v.kind = "CompoundPath" => isValidCompoundPath(result.v)

\* safeUnite was given a valid path and a compound with an invalid child,
\* and returned none without a kernel call.
C14_Witness ==
    /\ UniteCalled
    /\ ~InvalidOperand(result.path1)
    /\ result.path2.kind = "CompoundPath"
    /\ Len(result.path2.children.items) = 2
    /\ InvalidOperand(result.path2)
    /\ result.v = Null /\ result.calls = <<>>

\* --------------------------------------------------- specification: preflight
\* An open path that crosses itself.
Bowtie ==
    Path(Array(<<Corner(0, 0), Corner(4, 4), Corner(4, 0), Corner(0, 4)>>),
         FALSE, Rectangle(Num(4), Num(4)), Num(15), Num(0))
\* A closed square of 10 mm and a closed strip 350 mm long.
Plate ==
    Path(Array(<<Corner(0, 0), Corner(20000, 0), Corner(20000, 20000),
                 Corner(0, 20000)>>),
         TRUE, Rectangle(Num(20000), Num(20000)), Num(80000), Num(100))
Strip ==
    Path(Array(<<Corner(0, 0), Corner(700000, 0), Corner(700000, 1),
                 Corner(0, 1)>>),
         TRUE, Rectangle(Num(700000), Num(1)), Num(1400002), Num(1))

PreflightShapes ==
    { Triangle, Bowtie, Plate, Strip, Broken(Triangle, "nan") }

\* The ParsedSVG of the paths of a heap, as parseSVG builds it.
ParsedOf(h) ==
    LET paths == [i \in 1..Len(h) |-> i]
        bounds == UnitedBounds(Machine(h, <<>>), paths, Null)
    IN  ParsedSVG(paths,
                  IF bounds.kind = "null" THEN Rectangle(Num(100), Num(100))
                  ELSE bounds,
                  Null)

InitPreflight ==
    /\ heap \in UNION { [1..n -> PreflightShapes] : n \in 0..MaxPaths }
    /\ parsed = ParsedOf(heap)
    /\ \E t \in {0, 2} :
          settings = [NoSettings EXCEPT !.removeIslandsThreshold = t]
    /\ pc = "ready"
    /\ result = NoResult
    /\ svgContent = Null /\ run = 0 /\ done = <<>>
    /\ probe = Null /\ verdict = Null
    /\ app = Null

\* preflightCheck(parsed, settings) has run as r under the oracle o.
Preflighted(o, r) ==
    /\ result' = [fn |-> "preflightCheck", v |-> r.v, thrown |-> r.thrown,
                  calls |-> r.m.calls, oracle |-> Effective(o, r.m.calls)]
    /\ heap' = r.m.heap

\* preflightCheck(parsed, settings)
PreflightCheck ==
    /\ pc = "ready"
    /\ \E o \in Oracles(3, MaxFaults, PipelineOutcomes) :
          Preflighted(o, preflightCheck(Machine(heap, <<>>), o, parsed,
                                       settings))
    /\ pc' = "called"
    /\ UNCHANGED <<app, svgContent, settings, parsed, run, done, probe, verdict>>

NextPreflight == PreflightCheck

SpecPreflight == InitPreflight /\ [][NextPreflight]_vars

\* preflightCheck has returned.
PreflightReturned == result.fn = "preflightCheck" /\ ~result.thrown

\* The issues of the result with a given severity and message.
IssuesWith(severity, message) ==
    { i \in 1..Len(result.v.issues) :
         /\ result.v.issues[i].severity = severity
         /\ result.v.issues[i].message = message }
ErrorIssues ==
    { i \in 1..Len(result.v.issues) : result.v.issues[i].severity = "error" }

\* C16: in every PreflightResult that preflightCheck returns, passed is true
\* exactly when no issue has the severity error; preflightCheck always
\* returns.
C16_PassedIffNoError ==
    result.fn = "preflightCheck" =>
        /\ ~result.thrown
        /\ result.v.passed <=> ErrorIssues = {}

\* A result that did not pass holds an error followed by a warning.
C16_Witness ==
    /\ PreflightReturned
    /\ ~result.v.passed
    /\ \E i \in ErrorIssues :
          \E j \in (i + 1)..Len(result.v.issues) :
             result.v.issues[j].severity = "warning"

\* The ParsedSVG holds one path only: a valid open path of three segments.
OneOpenTriangle ==
    /\ Len(parsed.paths) = 1
    /\ isValidPath(heap[parsed.paths[1]])
    /\ ~heap[parsed.paths[1]].closed
    /\ Len(heap[parsed.paths[1]].segments.items) = 3

\* C17 as stated: on one valid open triangle preflightCheck reports exactly
\* one open-path warning and no error, and passed is true.
C17_OpenTriangleNoError ==
    (PreflightReturned /\ OneOpenTriangle) =>
        /\ Cardinality(IssuesWith("warning", "open paths")) = 1
        /\ ErrorIssues = {}
        /\ result.v.passed

\* C17 as amended: on one valid open triangle preflightCheck reports exactly
\* one open-path warning and exactly one error, the one for the absence of
\* closed paths, and passed is false.
C17_OpenTriangleOneError ==
    (PreflightReturned /\ OneOpenTriangle) =>
        /\ Cardinality(IssuesWith("warning", "open paths")) = 1
        /\ ErrorIssues = IssuesWith("error", "no closed paths")
        /\ Cardinality(ErrorIssues) = 1
        /\ ~result.v.passed

\* preflightCheck has answered for one valid open triangle.
C17_Witness ==
    /\ PreflightReturned /\ OneOpenTriangle
    /\ result.calls = <<"getIntersections">>
    /\ ~result.v.passed

\* The paths of the ParsedSVG by their closed flag.
ClosedGiven == { i \in 1..Len(parsed.paths) : heap[parsed.paths[i]].closed }
OpenGiven == { i \in 1..Len(parsed.paths) : ~heap[parsed.paths[i]].closed }

\* C18: on a ParsedSVG with no closed path and at least one open path
\* preflightCheck reports an error, and passed is false.
C18_OnlyOpenPathsFail ==
    (PreflightReturned /\ ClosedGiven = {} /\ OpenGiven # {}) =>
        /\ ErrorIssues # {}
        /\ ~result.v.passed

\* preflightCheck has rejected a ParsedSVG of two valid open paths.
C18_Witness ==
    /\ PreflightReturned
    /\ ClosedGiven = {} /\ Cardinality(OpenGiven) = 2
    /\ \A i \in OpenGiven : isValidPath(heap[parsed.paths[i]])
    /\ IssuesWith("error", "no closed paths") # {}
    /\ ~result.v.passed

\* ------------------------------------------------ specification: mesh builder
\* A counter-clockwise square of 10 by 10, the same square clockwise, and a
\* clockwise circle of radius 2 around the centre of the square.
Box ==
    Path(Array(<<Corner(0, 0), Corner(0, 10), Corner(10, 10),
                 Corner(10, 0)>>),
         TRUE, Rectangle(Num(10), Num(10)), Num(40), Num(0 - 100))
BoxClockwise ==
    Path(Array(<<Corner(0, 0), Corner(10, 0), Corner(10, 10),
                 Corner(0, 10)>>),
         TRUE, Rectangle(Num(10), Num(10)), Num(40), Num(100))
Ring ==
    Path(Array(<<
           Segment(Point(Num(3), Num(5)), Point(Num(0), Num(1)),
                   Point(Num(0), Num(0 - 1))),
           Segment(Point(Num(5), Num(3)), Point(Num(0 - 1), Num(0)),
                   Point(Num(1), Num(0))),
           Segment(Point(Num(7), Num(5)), Point(Num(0), Num(0 - 1)),
                   Point(Num(0), Num(1))),
           Segment(Point(Num(5), Num(7)), Point(Num(1), Num(0)),
                   Point(Num(0 - 1), Num(0)))>>),
         TRUE, Rectangle(Num(4), Num(4)), Num(13), Num(12))
\* A valid path of two segments.
Stroke ==
    Path(Array(<<Corner(0, 0), Corner(1, 0)>>), FALSE,
         Rectangle(Num(1), Num(0)), Num(1), Num(0))

MeshChildren ==
    { Box, BoxClockwise, Ring, Triangle, Stroke, Broken(Triangle, "nan"),
      Group(Array(<<>>)) }

MeshCompounds ==
    { CompoundPath(Array(children), 0) :
          children \in UNION { [1..n -> MeshChildren] : n \in 0..MaxChildren } }
    \cup { CompoundPath(Null, 0) }

\* Geometries without an index (as an extrusion gives them), with one, with
\* no normals, and with no attribute at all.
GeometrySamples ==
    { BufferGeometry(Array(<<1, 2, 3>>), Array(<<1, 1, 1>>), Null),
      BufferGeometry(Array(<<4, 5, 6, 7, 8, 9>>),
                     Array(<<2, 2, 2, 2, 2, 2>>), Null),
      BufferGeometry(Array(<<10, 11, 12, 13>>), Array(<<3, 3, 3, 3>>),
                     Array(<<0, 1, 2, 0, 2, 3>>)),
      BufferGeometry(Array(<<14, 15, 16>>), Null, Array(<<0, 1, 2>>)),
      BufferGeometry(Null, Null, Null) }

GeometryLists ==
    { [kind |-> "GeometryList", items |-> geometries] :
          geometries \in
              UNION { [1..n -> GeometrySamples] : n \in 0..MaxGeometries } }

InitMesh ==
    /\ probe \in MeshCompounds \cup GeometryLists
    /\ pc = "ready"
    /\ result = NoResult
    /\ heap = <<>> /\ parsed = Null /\ settings = NoSettings
    /\ svgContent = Null /\ run = 0 /\ done = <<>> /\ verdict = Null
    /\ app = Null

\* pathToShapes(probe) has run as r under the oracle o.
Shaped(o, r) ==
    result' = [fn |-> "pathToShapes", v |-> r.v, thrown |-> r.thrown,
               calls |-> r.m.calls, oracle |-> Effective(o, r.m.calls)]

\* pathToShapes(compoundPath)
PathToShapes ==
    /\ pc = "ready"
    /\ probe.kind = "CompoundPath"
    /\ \E o \in Oracles(MaxChildren, MaxFaults, {"fault"}) :
          Shaped(o, pathToShapes(Machine(heap, <<>>), o, probe))
    /\ pc' = "called"
    /\ UNCHANGED <<app, svgContent, settings, heap, parsed, run, done, probe,
                   verdict>>

\* mergeGeometries(geometries)
MergeGeometries ==
    /\ pc = "ready"
    /\ probe.kind = "GeometryList"
    /\ result' = [fn |-> "mergeGeometries",
                  v |-> mergeGeometries(probe.items)]
    /\ pc' = "called"
    /\ UNCHANGED <<app, svgContent, settings, heap, parsed, run, done, probe,
                   verdict>>

\* The settings of the mesh builder: with a base and without.
MeshSettings ==
    [thickness : {2}, baseThickness : {0, 1}, bevel : {0},
     offset : {0}, simplifyTolerance : {0}, removeIslandsThreshold : {0}]

\* The compounds handed to generateMesh and generate3DModel.
BuildsCompound ==
    /\ probe.kind = "CompoundPath"
    /\ probe.children.kind = "Array" => Len(probe.children.items) <= MaxShapes

\* The oracles of a mesh build: as many calls as the build makes when none
\* fails, the export included.
MeshOracles(s) ==
    Oracles(Len(generate3DModel(Machine(heap, <<>>), NoFailure, probe,
                                s).m.calls) + 1,
            MaxFaults, {"fault"})

\* generateMesh(probe, s) has run as r under the oracle o.
MeshGenerated(s, o, r) ==
    /\ result' = [fn |-> "generateMesh", v |-> r.v, error |-> r.error,
                  main |-> r.main, base |-> r.base, calls |-> r.m.calls,
                  oracle |-> Effective(o, r.m.calls)]
    /\ settings' = s

\* generateMesh(compoundPath, settings)
GenerateMesh ==
    /\ pc = "ready"
    /\ BuildsCompound
    /\ \E s \in MeshSettings :
          \E o \in MeshOracles(s) :
             MeshGenerated(s, o, generateMesh(Machine(heap, <<>>), o, probe, s))
    /\ pc' = "called"
    /\ UNCHANGED <<app, svgContent, heap, parsed, run, done, probe, verdict>>

\* generate3DModel(probe, s) has run as r under the oracle o.
ModelGenerated(s, o, r) ==
    /\ result' = [fn |-> "generate3DModel", v |-> r.v, thrown |-> r.thrown,
                  mesh |-> r.mesh, calls |-> r.m.calls,
                  oracle |-> Effective(o, r.m.calls)]
    /\ settings' = s

\* generate3DModel(compoundPath, settings)
Generate3DModel ==
    /\ pc = "ready"
    /\ BuildsCompound
    /\ \E s \in MeshSettings :
          \E o \in MeshOracles(s) :
             ModelGenerated(s, o,
                 generate3DModel(Machine(heap, <<>>), o, probe, s))
    /\ pc' = "called"
    /\ UNCHANGED <<app, svgContent, heap, parsed, run, done, probe, verdict>>

NextMesh ==
    \/ PathToShapes
    \/ MergeGeometries
    \/ GenerateMesh
    \/ Generate3DModel

SpecMesh == InitMesh /\ [][NextMesh]_vars

\* The elements of a sequence at the indices of a set, in order.
Sub(seq, indices) ==
    [k \in 1..Cardinality(indices) |->
        seq[CHOOSE j \in indices :
                Cardinality({i \in indices : i < j}) = k - 1]]

\* pathToShapes has returned.
ShapesReturned == result.fn = "pathToShapes" /\ ~result.thrown

\* The children of the compound whose winding pathToShapes asks for: the
\* valid paths of three segments or more.
Candidates ==
    LET Asked(child) == /\ child.kind = "Path" /\ isValidPath(child)
                        /\ Len(child.segments.items) >= 3
    IN  IF probe.children.kind = "null" THEN <<>>
        ELSE SelectSeq(probe.children.items, Asked)

\* The children that yield an outline: those whose winding was obtained.
Yielding ==
    Sub(Candidates,
        { j \in 1..Len(Candidates) : j \notin DOMAIN result.oracle })

\* The yielding children that start a solid shape: the first one and every
\* one that is not clockwise.
Solids ==
    { j \in 1..Len(Yielding) : j = 1 \/ ~GreaterEq(Yielding[j].area, 0) }

\* The yielding children that lie under the solid s as its holes.
HolesUnder(s) ==
    { j \in 1..Len(Yielding) :
         /\ j > s /\ j \notin Solids
         /\ \A t \in Solids : t <= s \/ t > j }

OutlineOf(path) == Outline(path.segments.items, 1, TRUE, <<>>)

\* A square followed by the clockwise circle inside it.
SquareThenCircle ==
    /\ probe.kind = "CompoundPath" /\ probe.children.kind = "Array"
    /\ probe.children.items \in {<<Box, Ring>>, <<BoxClockwise, Ring>>}

\* C19: pathToShapes gives one solid shape for the first child that yields
\* an outline and for every later one that is not clockwise, in order, and
\* puts every other yielding child, in order, among the holes of the solid
\* shape emitted last before it; so a square followed by a concentric
\* clockwise circle gives one solid shape with one hole.
C19_ClockwiseNestsUnderLastSolid ==
    ShapesReturned =>
        /\ Len(result.v) = Cardinality(Solids)
        /\ \A k \in 1..Len(result.v) :
              LET s == Sub([j \in 1..Len(Yielding) |-> j], Solids)[k]
                  holes == Sub(Yielding, HolesUnder(s))
              IN  /\ result.v[k].curves = OutlineOf(Yielding[s])
                  /\ result.v[k].holes =
                        [h \in 1..Len(holes) |->
                            Shape(OutlineOf(holes[h]), <<>>)]
        /\ (SquareThenCircle /\ result.oracle = NoFailure) =>
              (Len(result.v) = 1 /\ Len(result.v[1].holes) = 1)

\* The square followed by the circle has given one shape whose one hole is
\* the circle, drawn with curves.
C19_Witness ==
    /\ ShapesReturned /\ SquareThenCircle
    /\ Len(result.v) = 1
    /\ Len(result.v[1].holes) = 1
    /\ result.v[1].holes[1].curves[2].op = "bezierCurveTo"

\* The triangles of a geometry: three indices each, or three vertices each
\* when it has no index.
TriangleCount(geometry) ==
    IF geometry.index.kind # "null" THEN Count(geometry.index) \div 3
    ELSE Count(geometry.position) \div 3

RECURSIVE TotalTriangles(_)
TotalTriangles(geometries) ==
    IF geometries = <<>> THEN 0
    ELSE TriangleCount(Head(geometries)) + TotalTriangles(Tail(geometries))

\* C20 (as stated): the mesh merged from a list of geometries has as many
\* triangles as the geometries of the list together, and as many vertices.
C20_MergeKeepsTriangles ==
    result.fn = "mergeGeometries" =>
        /\ TriangleCount(result.v) = TotalTriangles(probe.items)
        /\ Count(result.v.position) = TotalCount(probe.items, "position")

\* pathToShapes has returned for a compound that satisfies
\* isValidCompoundPath.
ValidShaped == ShapesReturned /\ isValidCompoundPath(probe)

\* The outlines pathToShapes produced: its shapes and their holes.
RECURSIVE OutlineCount(_)
OutlineCount(shapes) ==
    IF shapes = <<>> THEN 0
    ELSE 1 + Len(Head(shapes).holes) + OutlineCount(Tail(shapes))

ChildPaths ==
    LET IsPath(child) == child.kind = "Path"
    IN  SelectSeq(probe.children.items, IsPath)

\* C28 (as stated): for a compound that satisfies isValidCompoundPath the
\* shapes and holes of pathToShapes are as many as the compound's child
\* paths, and the list of shapes is not empty.
C28_EveryChildOneOutline ==
    ValidShaped =>
        /\ OutlineCount(result.v) = Len(ChildPaths)
        /\ Len(result.v) > 0

\* C28 (as amended): for a compound that satisfies isValidCompoundPath the
\* shapes and holes of pathToShapes are as many as the child paths of three
\* segments or more whose winding the kernel gave without a fault; they are
\* never more than the child paths, and the list of shapes is empty exactly
\* when there is no such child.
C28_OutlinePerConvertedChild ==
    ValidShaped =>
        /\ OutlineCount(result.v) = Len(Yielding)
        /\ OutlineCount(result.v) <= Len(ChildPaths)
        /\ Len(result.v) = 0 <=> Len(Yielding) = 0

\* A valid compound of a square and a path of two segments has given one
\* outline.
C28_Witness ==
    /\ ValidShaped
    /\ probe.children.items = <<Stroke, Box>>
    /\ result.oracle = NoFailure
    /\ OutlineCount(result.v) = 1

\* The last call was generateMesh.
MeshCalled == result.fn = "generateMesh"

\* The library calls of the base: those from the first winding asked for
\* after an extrusion.
BaseCalls ==
    { j \in 1..Len(result.calls) :
         \E i, k \in 1..j :
            /\ i < k
            /\ result.calls[i] = "extrude" /\ result.calls[k] = "clockwise" }

\* An extrusion of the main body faulted.
MainExtrusionThrew ==
    \E i \in DOMAIN result.oracle :
        result.calls[i] = "extrude" /\ i \notin BaseCalls

\* The main body was extruded and the base failed: an extrusion of the base
\* faulted, or no shape was found for it.
OnlyBaseThrew ==
    /\ MeshCalled /\ ~MainExtrusionThrew
    /\ BaseCalls # {}
    /\ \/ \E i \in DOMAIN result.oracle \cap BaseCalls :
              result.calls[i] = "extrude"
       \/ \A i \in BaseCalls : result.calls[i] # "extrude"

\* C21: generateMesh throws its extrusion error, and returns no mesh,
\* exactly when an extrusion of the main body throws; when the main body is
\* extruded and only the base fails, it returns a mesh whose geometry is
\* the main body's: the vertices extruded to the thickness, centred, and
\* none of the base.
C21_BaseDroppedMainKept ==
    MeshCalled =>
        /\ MainExtrusionThrew <=> result.error = EXTRUDE_FAILED
        /\ result.error # "none" => result.v = Null
        /\ OnlyBaseThrew =>
              /\ result.error = "none"
              /\ result.v.geometry = WithVertexNormals(Centered(result.main))
              /\ Count(result.main.position) > 0
              /\ \A i \in 1..Count(result.main.position) :
                    result.main.position.items[i] = settings.thickness
        /\ (result.error = "none" /\ settings.baseThickness > 0
                /\ ~OnlyBaseThrew) =>
              \E i \in 1..Count(result.v.geometry.position) :
                  result.v.geometry.position.items[i] # 0

\* An extrusion of the base faulted after the main body of two shapes had
\* been extruded, and the mesh of the main body was returned.
C21_Witness ==
    /\ OnlyBaseThrew
    /\ \E i \in DOMAIN result.oracle \cap BaseCalls :
          result.calls[i] = "extrude"
    /\ result.error = "none"
    /\ Count(result.v.geometry.position) > 3

\* The last call was generate3DModel.
ModelCalled == result.fn = "generate3DModel"

\* C22: generate3DModel never rejects; it resolves to a GenerationResult
\* with success and a blob and no error, or with failure and an error
\* message and no blob, the processing time being set in both; a compound
\* that does not satisfy isValidCompoundPath gives the failure.
C22_AlwaysAResult ==
    ModelCalled =>
        /\ ~result.thrown
        /\ \/ /\ result.v.success = TRUE
              /\ result.v.stlBlob.kind = "Blob"
              /\ result.v.error = Undefined
           \/ /\ result.v.success = FALSE
              /\ result.v.stlBlob = Undefined
              /\ result.v.error \in {INVALID_GEOMETRY, INVALID_COMPOUND,
                                     NO_SHAPES, EXTRUDE_FAILED, LIBRARY_FAULT}
        /\ IsNumber(result.v.processingTime)
        /\ IsFinite(result.v.processingTime)
        /\ ~isValidCompoundPath(probe) => result.v.success = FALSE

\* The export of a mesh that had been built faulted, and generate3DModel
\* resolved to a failure.
C22_Witness ==
    /\ ModelCalled
    /\ result.mesh.error = "none"
    /\ result.calls[Len(result.calls)] = "parse"
    /\ Len(result.calls) \in DOMAIN result.oracle
    /\ result.v.success = FALSE /\ result.v.error = LIBRARY_FAULT

\* The vertices and the index entries of the sources before the k-th.
VerticesBefore(k) == TotalCount(SubSeq(probe.items, 1, k - 1), "position")
IndicesBefore(k) == TotalCount(SubSeq(probe.items, 1, k - 1), "index")

\* Every index of every source is below the source's vertex count.
SourcesInRange ==
    \A k \in 1..Len(probe.items) :
        probe.items[k].index.kind # "null" =>
            \A i \in 1..Count(probe.items[k].index) :
                probe.items[k].index.items[i] < Count(probe.items[k].position)

\* C26: the merged geometry holds the sources' vertices one source after
\* the other, and each source's index entries one source after the other,
\* every entry increased by the number of vertices of the sources before
\* it; so when the sources' indices are in range, every merged index is
\* below the merged vertex count and points at the vertex of its own
\* source that it pointed at before.
C26_IndicesShifted ==
    result.fn = "mergeGeometries" =>
        /\ Count(result.v.position) = TotalCount(probe.items, "position")
        /\ Count(result.v.index) = TotalCount(probe.items, "index")
        /\ \A k \in 1..Len(probe.items) :
              /\ \A i \in 1..Count(probe.items[k].position) :
                    result.v.position.items[VerticesBefore(k) + i] =
                        probe.items[k].position.items[i]
              /\ \A i \in 1..Count(probe.items[k].index) :
                    result.v.index.items[IndicesBefore(k) + i] =
                        probe.items[k].index.items[i] + VerticesBefore(k)
        /\ SourcesInRange =>
              \A k \in 1..Len(probe.items) :
                 \A i \in 1..Count(probe.items[k].index) :
                    LET entry == result.v.index.items[IndicesBefore(k) + i]
                    IN  /\ entry < Count(result.v.position)
                        /\ entry >= VerticesBefore(k)
                        /\ entry < VerticesBefore(k + 1)
                        /\ result.v.position.items[entry + 1] =
                              probe.items[k].position.items[
                                  probe.items[k].index.items[i] + 1]

\* Two indexed geometries were merged, the second behind the four vertices
\* of the first.
C26_Witness ==
    /\ result.fn = "mergeGeometries"
    /\ Len(probe.items) >= 2
    /\ Count(probe.items[1].index) > 0 /\ Count(probe.items[2].index) > 0
    /\ VerticesBefore(2) = 4
    /\ result.v.index.items[IndicesBefore(2) + 1] = 4

\* ---------------------------------------------------- specification: pipeline
\* The markup of a request, as the item tree it describes.
Markups ==
    { Null,
      Group(Array(<<Triangle>>)),
      Group(Array(<<Triangle, Group(Array(<<Speck>>))>>)),
      Group(Array(<<Square, Square>>)),
      Group(Array(<<CompoundPath(Array(<<Square, Speck>>), 0),
                    Broken(Triangle, "nan")>>)),
      Group(Array(<<Broken(Square, "collapse")>>)) }

SettingsRecords ==
    [offset : {0 - MaxOffset, 0, OFFSET_EPSILON, MaxOffset},
     simplifyTolerance : {0, 1},
     removeIslandsThreshold : {0, 2}]

\* A failure of a kernel call never adds calls to a run, so the run in which
\* no call fails tells how many calls an oracle has to cover.  The calls of
\* one conversion run (parseSVG, then processPaths) that fail are at most
\* MaxFaults.

\* The repeat of a run meets the kernel the first run met.
ParseOracles ==
    IF pc # "idle" THEN {done[1].parseOracle}
    ELSE Oracles(Len(parseSVG(Machine(heap, <<>>), NoFailure,
                              svgContent).m.calls),
                 MaxFaults, PipelineOutcomes)
ProcessOracles ==
    IF run > 1 THEN {done[1].processOracle}
    ELSE Oracles(Len(processPaths(Machine(heap, <<>>), NoFailure, parsed,
                                  settings).m.calls),
                 MaxFaults - Cardinality(DOMAIN result.oracle),
                 PipelineOutcomes)

\* The geometry of a compound: its children without the objects' identity.
Structure(v) == IF v.kind = "CompoundPath" THEN v.children.items ELSE <<>>

\* The values of the paths of a ParsedSVG.
PathValues(h, p) == [i \in 1..Len(p.paths) |-> h[p.paths[i]]]

Init ==
    /\ svgContent \in Markups
    /\ settings \in SettingsRecords
    /\ heap = <<>>
    /\ parsed = Null
    /\ pc = "idle"
    /\ run = 1
    /\ result = NoResult
    /\ done = <<>>
    /\ probe = Null /\ verdict = Null
    /\ app = Null

Finished(error, v, parseOracle, processOracle) ==
    [error |-> error, structure |-> Structure(v),
     parseOracle |-> parseOracle, processOracle |-> processOracle]

\* parseSVG(svgContent) has run as r under the oracle o.
Parsed(o, r) ==
    /\ heap' = r.m.heap
    /\ parsed' = r.v
    /\ result' = [fn |-> "parseSVG", error |-> r.error, stage |-> r.stage,
                  v |-> r.v, calls |-> r.m.calls,
                  oracle |-> Effective(o, r.m.calls), scope |-> Len(heap)]
    /\ pc' = IF r.error = "none" THEN "parsed" ELSE "failed"
    /\ done' = IF r.error = "none" THEN done
               ELSE Append(done, Finished(r.error, Null,
                                          Effective(o, r.m.calls), <<>>))

\* parseSVG(svgContent): the first step of a conversion run.  The repeat of
\* the run parses the same markup afresh.
ParseSVG ==
    /\ \/ pc = "idle" /\ run' = run
       \/ pc \in {"reprocessed", "failed"} /\ run < MaxRuns /\ run' = run + 1
    /\ \E o \in ParseOracles :
          Parsed(o, parseSVG(Machine(heap, <<>>), o, svgContent))
    /\ UNCHANGED <<app, svgContent, settings, probe, verdict>>

ProcessResult(r, used, again) ==
    [fn |-> "processPaths", error |-> r.error, stage |-> r.stage, v |-> r.v,
     calls |-> r.m.calls, oracle |-> used,
     before |-> PathValues(heap, parsed),
     validPaths |-> r.validPaths, processedPaths |-> r.processedPaths,
     offsetPaths |-> r.offsetPaths, finalPaths |-> r.finalPaths,
     compound |-> r.compound,
     again |-> again,
     parseOracle |-> IF again THEN result.parseOracle ELSE result.oracle,
     first |-> IF again THEN [error |-> result.error, v |-> result.v]
               ELSE Null]

\* processPaths(parsed, settings) has run as r under the oracle o.
ProcessedFirst(o, r) ==
    /\ heap' = r.m.heap
    /\ result' = ProcessResult(r, Effective(o, r.m.calls), FALSE)
    /\ done' = Append(done, Finished(r.error, r.v, result.oracle,
                                     Effective(o, r.m.calls)))

\* processPaths(parsed, settings)
ProcessPaths ==
    /\ pc = "parsed"
    /\ \E o \in ProcessOracles :
          ProcessedFirst(o, processPaths(Machine(heap, <<>>), o, parsed,
                                         settings))
    /\ pc' = "processed"
    /\ UNCHANGED <<app, svgContent, settings, parsed, run, probe, verdict>>

ProcessedAgain(r) ==
    /\ heap' = r.m.heap
    /\ result' = ProcessResult(r, Effective(result.oracle, r.m.calls), TRUE)

\* processPaths(parsed, settings) once more, on the same ParsedSVG, the
\* kernel failing at the same calls as before.
ProcessPathsAgain ==
    /\ pc = "processed"
    /\ ProcessedAgain(processPaths(Machine(heap, <<>>), result.oracle,
                                   parsed, settings))
    /\ pc' = "reprocessed"
    /\ UNCHANGED <<app, svgContent, settings, parsed, run, done, probe, verdict>>

Next ==
    \/ ParseSVG
    \/ ProcessPaths
    \/ ProcessPathsAgain

Spec == Init /\ [][Next]_vars

\* The last call was processPaths.
ProcessCalled == result.fn = "processPaths"

\* C2: whenever processPaths returns, it returns a compound, and every child
\* path of that compound satisfies isValidPath, whichever kernel calls failed
\* or gave an invalid path on the way.
C2_OutputChildrenValid ==
    (ProcessCalled /\ result.error = "none") =>
        /\ result.v.kind = "CompoundPath"
        /\ \A i \in 1..Len(result.v.children.items) :
              isValidPath(result.v.children.items[i])

\* A compound was returned although a kernel call of the run gave an invalid
\* path, which was dropped.
C2_Witness ==
    /\ ProcessCalled /\ result.error = "none"
    /\ \E i \in DOMAIN result.oracle : result.oracle[i] = "nan"
    /\ Len(result.processedPaths) < Len(result.validPaths)
    /\ Len(result.v.children.items) >= 1

\* C4 (as stated): no call of parseSVG or processPaths ends with anything but
\* a result or one of the pipeline's own errors; a kernel fault never leaves
\* them as it was raised.
C4_OnlyPipelineErrors ==
    result.fn \in {"parseSVG", "processPaths"} =>
        result.error \in {"none", "ParseError", "ProcessingError",
                          "GeometryOperationFailure"}

Stage1Empty == Len(result.processedPaths) = 0
Stage3Empty == ~Stage1Empty /\ Len(result.finalPaths) = 0
UniteGaveNone == result.compound.kind = "null"

\* C5: processPaths either returns a compound that is not null or throws a
\* ProcessingError; it throws exactly when nothing survived the close and
\* simplify loop, or the island filter left nothing, or the union gave none;
\* and once a stage has left nothing no later stage runs (no list of a later
\* stage is filled, the union is not attempted, the kernel is not called).
C5_ProcessOutcomes ==
    ProcessCalled =>
        /\ result.error \in {"none", "ProcessingError"}
        /\ result.error = "none" => result.v.kind = "CompoundPath"
        /\ result.error = "ProcessingError"
              <=> (Stage1Empty \/ Stage3Empty \/ UniteGaveNone)
        /\ Stage1Empty =>
              /\ result.offsetPaths = <<>> /\ result.finalPaths = <<>>
              /\ result.compound = Unreached
              /\ \A i \in 1..Len(result.calls) :
                    result.calls[i] \in {"closePath", "simplify"}
        /\ Stage3Empty =>
              /\ result.compound = Unreached
              /\ \A i \in 1..Len(result.calls) :
                    result.calls[i] \notin {"clone", "unite"}

\* processPaths threw because the union of a surviving set gave none.
C5_Witness ==
    /\ ProcessCalled /\ result.error = "ProcessingError"
    /\ Len(result.finalPaths) > 0
    /\ UniteGaveNone

C7_InputUntouched ==
    ProcessCalled =>
        /\ \A i \in 1..Len(parsed.paths) :
              /\ heap[parsed.paths[i]].closed = result.before[i].closed
              /\ heap[parsed.paths[i]].segments = result.before[i].segments
        /\ result.again =>
              /\ result.error = result.first.error
              /\ Structure(result.v) = Structure(result.first.v)

\* The offset stage of the last processPaths ran.
OffsetStageRan ==
    /\ ProcessCalled
    /\ AbsInt(settings.offset) > OFFSET_EPSILON
    /\ Len(result.processedPaths) > 0

\* C10: when the offset stage runs, the list it leaves is as long as the list
\* it was given, and its i-th element is the i-th path it was given or a new,
\* valid path which is the offset of that one.
C10_OffsetKeepsEveryPath ==
    OffsetStageRan =>
        /\ Len(result.offsetPaths) = Len(result.processedPaths)
        /\ \A i \in 1..Len(result.offsetPaths) :
              \/ result.offsetPaths[i] = result.processedPaths[i]
              \/ /\ \A k \in 1..Len(result.processedPaths) :
                        result.offsetPaths[i] # result.processedPaths[k]
                 /\ isValidPath(heap[result.offsetPaths[i]])
                 /\ heap[result.offsetPaths[i]] =
                        Offsetted(heap[result.processedPaths[i]],
                                  settings.offset)

\* The stage offset one path and fell back to the other, whose offset failed.
C10_Witness ==
    /\ OffsetStageRan
    /\ Len(result.offsetPaths) = 2
    /\ \E i, j \in 1..2 :
          /\ result.offsetPaths[i] = result.processedPaths[i]
          /\ result.offsetPaths[j] # result.processedPaths[j]

\* The stage a kernel call of processPaths belongs to.
StageOf(call) ==
    CASE call \in {"closePath", "simplify"} -> 1
      [] call = "offsetPath" -> 2
      [] call \in {"clone", "unite"} -> 4
      [] OTHER -> 0

\* The k-th valid path was open when processPaths was called.
WasOpen(k) ==
    \E i \in 1..Len(parsed.paths) :
        parsed.paths[i] = result.validPaths[k] /\ ~result.before[i].closed

\* The kernel calls of a loop that, for each valid path from the k-th on,
\* closes the path if it was open and then simplifies it if it is one of
\* the simplified.
RECURSIVE CloseThenSimplify(_, _)
CloseThenSimplify(k, simplified) ==
    IF k > Len(result.validPaths) THEN <<>>
    ELSE (IF WasOpen(k) THEN <<"closePath">> ELSE <<>>)
         \o (IF k \in simplified THEN <<"simplify">> ELSE <<>>)
         \o CloseThenSimplify(k + 1, simplified)

CallsOfStage(n) ==
    LET InStage(call) == StageOf(call) = n IN SelectSeq(result.calls, InStage)

\* C24: the kernel calls of a run of processPaths come stage by stage: for
\* each valid path in turn its close, then its simplify; then one offset for
\* every path that came through, when the offset stage applies; then the
\* island filter, on the list the offset stage left; then, if the filter
\* left something, the union step, once, with one unite as the last call of
\* a run that returns.  A run that throws makes no call after the stage
\* that threw.
C24_StagesInOrder ==
    ProcessCalled =>
        /\ \A i, j \in 1..Len(result.calls) :
              i < j => /\ StageOf(result.calls[i]) >= 1
                       /\ StageOf(result.calls[i]) <= StageOf(result.calls[j])
        /\ \E simplified \in SUBSET (1..Len(result.validPaths)) :
              /\ settings.simplifyTolerance <= 0 => simplified = {}
              /\ CallsOfStage(1) = CloseThenSimplify(1, simplified)
        /\ Len(CallsOfStage(2)) =
              IF AbsInt(settings.offset) > OFFSET_EPSILON
              THEN Len(result.processedPaths) ELSE 0
        /\ \A i \in 1..Len(result.finalPaths) :
              \E k \in 1..Len(result.offsetPaths) :
                  result.finalPaths[i] = result.offsetPaths[k]
        /\ (result.compound # Unreached) <=> Len(result.finalPaths) > 0
        /\ Cardinality({ i \in 1..Len(result.calls) :
                            result.calls[i] = "unite" }) <= 1
        /\ result.error = "none" =>
              /\ Len(result.calls) >= 1
              /\ result.calls[Len(result.calls)] = "unite"
        /\ result.stage \in {"validate", "close"} => CallsOfStage(2) = <<>>
        /\ result.stage \in {"validate", "close", "filter"} =>
              CallsOfStage(4) = <<>>

\* A run that closed and simplified an open path, offset it and united the
\* result.
C24_Witness ==
    /\ ProcessCalled /\ result.error = "none"
    /\ \E i, j, k \in 1..Len(result.calls) :
          /\ i < j /\ j < k
          /\ result.calls[i] = "closePath" /\ result.calls[j] = "simplify"
          /\ result.calls[k] = "offsetPath"
    /\ result.calls[Len(result.calls)] = "unite"

\* What preflightCheck counts as tiny features in the paths processPaths was
\* given, as they were before it ran.
AnnouncedTiny ==
    TinyIslandsCount(Machine(result.before, <<>>),
                     [i \in 1..Len(result.before) |-> i], settings)

\* C29 (as stated): with removeIslandsThreshold > 0 the island filter of
\* processPaths removes as many paths as preflightCheck counts as tiny
\* features in the same ParsedSVG under the same settings.
C29_RemovedAsAnnounced ==
    (ProcessCalled /\ ~result.again /\ settings.removeIslandsThreshold > 0
        /\ Len(result.processedPaths) > 0) =>
        Len(result.offsetPaths) - Len(result.finalPaths) = AnnouncedTiny

\* The island filter of the last processPaths ran.
FilterRan == ProcessCalled /\ Len(result.processedPaths) > 0

\* The size of a path's area, whichever way the path winds.
AreaSize(id) ==
    IF heap[id].area.t = "num" THEN AbsInt(heap[id].area.v) ELSE 0 - 1

\* C25: with removeIslandsThreshold > 0 the list handed to the union is the
\* list the offset stage left, less the paths whose absolute area is below
\* the threshold, in the same order; with a threshold of 0 or less it is the
\* list the offset stage left.
C25_FilterKeepsLargeEnough ==
    FilterRan =>
        LET Large(id) == AreaSize(id) >= settings.removeIslandsThreshold
        IN  /\ settings.removeIslandsThreshold > 0 =>
                  result.finalPaths = SelectSeq(result.offsetPaths, Large)
            /\ settings.removeIslandsThreshold <= 0 =>
                  result.finalPaths = result.offsetPaths

\* The filter removed a path that had been offset and kept another.
C25_Witness ==
    /\ FilterRan /\ settings.removeIslandsThreshold > 0
    /\ AbsInt(settings.offset) > OFFSET_EPSILON
    /\ Len(result.finalPaths) < Len(result.offsetPaths)
    /\ Len(result.finalPaths) >= 1

\* The last call was parseSVG.
ParseCalled == result.fn = "parseSVG"

\* The paths of an item tree, at every depth, in document order.
RECURSIVE PathsIn(_)
PathsIn(items) ==
    IF items = <<>> THEN <<>>
    ELSE IF Head(items).kind = "Path"
    THEN <<Head(items)>> \o PathsIn(Tail(items))
    ELSE IF Head(items).kind \in {"Group", "CompoundPath"}
    THEN PathsIn(Head(items).children.items) \o PathsIn(Tail(items))
    ELSE PathsIn(Tail(items))

\* The objects the import created: the parser's own.
ParserOwned ==
    (result.scope + 1)..(result.scope + Len(PathsIn(<<svgContent>>)))

\* C15 (as stated): parseSVG either fails with a ParseError or returns a
\* ParsedSVG whose paths list is not empty and holds only valid paths, each a
\* clone (an object the import did not create) of a path found at some depth
\* of the markup.
C15_ParseOutcomes ==
    ParseCalled =>
        \/ result.error = "ParseError"
        \/ /\ result.error = "none"
           /\ Len(parsed.paths) > 0
           /\ \A i \in 1..Len(parsed.paths) :
                 /\ isValidPath(heap[parsed.paths[i]])
                 /\ parsed.paths[i] \notin ParserOwned
                 /\ \E k \in ParserOwned : heap[k] = heap[parsed.paths[i]]

\* --------------------------------------------------------- specification: App
\* The files a user selects: their names and what file.text() gives.  The
\* text of the last describes no item.
AppFiles ==
    { [name |-> "a.svg", text |-> Group(Array(<<Square>>))],
      [name |-> "b.svg", text |-> Group(Array(<<Square, Speck>>))],
      [name |-> "c.svg", text |-> Group(Array(<<Triangle>>))],
      [name |-> "d.svg", text |-> Null] }

AppSettings ==
    [thickness |-> 2, baseThickness |-> 0, bevel |-> 0, offset |-> 0,
     simplifyTolerance |-> 0, removeIslandsThreshold |-> 0]

\* The useState values of App and window.__stlBlob; svgContent and settings
\* are variables of their own.  reads holds the files whose text() is
\* pending, generating what handleGenerate holds while it awaits, download
\* what the last download handed to the browser.
InitApp ==
    /\ app = [svgFile |-> Null, preflightResult |-> Null, mesh |-> Null,
              isProcessing |-> FALSE, error |-> "", stlBlob |-> Null,
              reads |-> <<>>, generating |-> Null, download |-> Null]
    /\ svgContent = Null
    /\ settings = AppSettings
    /\ heap = <<>>
    /\ run = 0
    /\ done = <<>>
    /\ pc = "app" /\ parsed = Null /\ result = NoResult
    /\ probe = Null /\ verdict = Null

\* handleFileUpload(file) up to its await.
HandleFileUpload ==
    /\ run < MaxUploads
    /\ \E file \in AppFiles :
          app' = [app EXCEPT !.svgFile = file, !.error = "",
                             !.preflightResult = Null, !.mesh = Null,
                             !.reads = Append(@, file)]
    /\ run' = run + 1
    /\ UNCHANGED <<svgContent, settings, heap, parsed, pc, result, done, probe,
                   verdict>>

Without(seq, k) == SubSeq(seq, 1, k - 1) \o SubSeq(seq, k + 1, Len(seq))

\* handleFileUpload from line 36: the preflight has run as r.
UploadChecked(k, r) ==
    /\ app' = [app EXCEPT !.preflightResult = r.v,
                          !.reads = Without(@, k)]
    /\ heap' = r.m.heap

\* handleFileUpload from line 35: the text has been parsed as r.
UploadParsed(k, r) ==
    IF r.error # "none"
    THEN /\ app' = [app EXCEPT !.error = r.error, !.reads = Without(@, k)]
         /\ heap' = r.m.heap
    ELSE UploadChecked(k, preflightCheck(Machine(r.m.heap, <<>>), NoFailure,
                                        r.v, settings))

\* handleFileUpload from line 31: a pending file.text() has completed.
FileTextRead ==
    /\ \E k \in 1..Len(app.reads) :
          /\ svgContent' = app.reads[k].text
          /\ UploadParsed(k, parseSVG(Machine(heap, <<>>), NoFailure,
                                      app.reads[k].text))
    /\ UNCHANGED <<settings, parsed, pc, run, result, done, probe, verdict>>

\* const canGenerate = svgContent && preflightResult?.passed && !isProcessing
canGenerate ==
    /\ svgContent # Null
    /\ app.preflightResult # Null
    /\ app.preflightResult.passed
    /\ ~app.isProcessing

\* handleGenerate from line 89: generate3DModel has run as r and is awaited.
GenerateAwaits(processed, r) ==
    /\ app' = [app EXCEPT !.isProcessing = TRUE, !.error = "",
                          !.generating = [result |-> r.v,
                                          processed |-> processed,
                                          text |-> svgContent]]
    /\ heap' = r.m.heap

\* handleGenerate from line 86: the paths have been processed as r; an error
\* goes to the catch and the finally block.
GenerateProcessed(r) ==
    IF r.error # "none"
    THEN /\ app' = [app EXCEPT !.isProcessing = FALSE, !.error = r.error]
         /\ heap' = r.m.heap
    ELSE GenerateAwaits(r.v, generate3DModel(Machine(r.m.heap, <<>>),
                                             NoFailure, r.v, settings))

\* handleGenerate from line 85: the content has been parsed as r.
GenerateParsed(r) ==
    IF r.error # "none"
    THEN /\ app' = [app EXCEPT !.isProcessing = FALSE, !.error = r.error]
         /\ heap' = r.m.heap
    ELSE GenerateProcessed(processPaths(Machine(r.m.heap, <<>>), NoFailure,
                                        r.v, settings))

\* handleGenerate up to its await; the button is enabled by canGenerate.
HandleGenerate ==
    /\ canGenerate
    /\ Len(done) + (IF app.generating = Null THEN 0 ELSE 1) < MaxGenerates
    /\ GenerateParsed(parseSVG(Machine(heap, <<>>), NoFailure, svgContent))
    /\ UNCHANGED <<svgContent, settings, parsed, pc, run, result, done, probe,
                   verdict>>

\* handleGenerate from line 99: the preview mesh has been built as r.
GeneratePreviewed(r) ==
    /\ app' = IF r.error # "none"
              THEN [app EXCEPT !.error = r.error, !.isProcessing = FALSE,
                               !.generating = Null]
              ELSE [app EXCEPT !.mesh = r.v,
                               !.stlBlob = app.generating.result.stlBlob,
                               !.isProcessing = FALSE, !.generating = Null]
    /\ heap' = r.m.heap

\* handleGenerate from line 91, after its await.
GenerateContinues ==
    /\ app.generating # Null
    /\ IF ~app.generating.result.success
       THEN /\ app' = [app EXCEPT !.error = app.generating.result.error,
                                  !.isProcessing = FALSE,
                                  !.generating = Null]
            /\ heap' = heap
       ELSE GeneratePreviewed(generateMesh(Machine(heap, <<>>), NoFailure,
                                           app.generating.processed,
                                           settings))
    /\ done' = Append(done, [text |-> app.generating.text,
                             v |-> app.generating.result])
    /\ UNCHANGED <<svgContent, settings, parsed, pc, run, result, probe,
                   verdict>>

\* `${svgFile?.name.replace('.svg', '') || 'model'}.stl`
DownloadName(svgFile) ==
    CASE svgFile = Null -> "model.stl"
      [] svgFile.name = "a.svg" -> "a.stl"
      [] svgFile.name = "b.svg" -> "b.stl"
      [] svgFile.name = "c.svg" -> "c.stl"
      [] svgFile.name = "d.svg" -> "d.stl"
      [] OTHER -> "model.stl"

\* handleDownloadSTL; its button is shown while there is a mesh.
HandleDownloadSTL ==
    /\ app.mesh # Null
    /\ app.stlBlob # Null
    /\ app' = [app EXCEPT !.download = [name |-> DownloadName(app.svgFile),
                                        blob |-> app.stlBlob]]
    /\ UNCHANGED <<svgContent, settings, heap, parsed, pc, run, result, done,
                   probe, verdict>>

NextApp ==
    \/ HandleFileUpload
    \/ FileTextRead
    \/ HandleGenerate
    \/ GenerateContinues
    \/ HandleDownloadSTL

SpecApp == InitApp /\ [][NextApp]_vars

\* What a request for a text gives when it runs alone, in a fresh kernel
\* scope: the result of its preflight, or Null when the text does not parse,
\* and the result of its conversion.
AlonePreflight(text) ==
    LET Checked(r) ==
            IF r.error # "none" THEN Null
            ELSE preflightCheck(Machine(r.m.heap, <<>>), NoFailure, r.v,
                                AppSettings).v
    IN  Checked(parseSVG(Machine(<<>>, <<>>), NoFailure, text))

AloneGenerated(text) ==
    LET Built(r) ==
            IF r.error # "none" THEN Null
            ELSE generate3DModel(Machine(r.m.heap, <<>>), NoFailure, r.v,
                                 AppSettings).v
        Processed1(r) ==
            IF r.error # "none" THEN Null
            ELSE Built(processPaths(Machine(r.m.heap, <<>>), NoFailure, r.v,
                                    AppSettings))
    IN  Processed1(parseSVG(Machine(<<>>, <<>>), NoFailure, text))

\* C23 (as stated): every conversion gives what it gives when it runs
\* alone, and the blob kept in the window is never that of a request that
\* has ended: it is the blob of the conversion of the file selected now.
C23_RequestsApart ==
    /\ \A i \in 1..Len(done) : done[i].v = AloneGenerated(done[i].text)
    /\ app.stlBlob # Null =>
          /\ AloneGenerated(app.svgFile.text) # Null
          /\ app.stlBlob = AloneGenerated(app.svgFile.text).stlBlob

\* Every file.text() has completed.
UploadsSettled == app.svgFile # Null /\ app.reads = <<>>

\* C30 (as stated): once every pending read has completed, svgContent is
\* the text of the file selected last, and preflightResult the result of
\* the preflight of that text.
C30_LastFileShown ==
    UploadsSettled =>
        /\ svgContent = app.svgFile.text
        /\ app.preflightResult = AlonePreflight(app.svgFile.text)

====
